---- MODULE Spec2Model ----
(***************************************************************************)
(* Routing policy of linear_mcp_fast: ToolRouter (router.py) between the   *)
(* local cache handlers and the official MCP session.                      *)
(*                                                                         *)
(* One call_read frame is followed statement by statement (pc); direct     *)
(* call_official calls, clock ticks and changes of the reader's health may *)
(* happen between any two of its statements (other caller threads, cache   *)
(* reloads).                                                               *)
(*                                                                         *)
(* Spec        the router (router.py)                                      *)
(* SpecReader  the idle-refresh and cache-access logic of the local reader *)
(*             (reader.py)                                                 *)
(* SpecSession the retry loop of the official session manager              *)
(*             (official_session.py)                                       *)
(***************************************************************************)
EXTENDS Integers, Sequences, FiniteSets, TLC

\* ------------------------------------------------------------------ bounds
MaxTime == 4
MaxWindow == 2
MaxReaderTime == 12
MaxFailures == 4
MaxLocalFailures == 2

\* ------------------------------------------------------- JSON-like values
None == [kind |-> "none"]
JStr(s) == [kind |-> "str", s |-> s]
JBool(b) == [kind |-> "bool", b |-> b]
JDict(m) == [kind |-> "dict", map |-> m]
JList(l) == [kind |-> "list", items |-> l]

EmptyDict == JDict(<<>>)

\* ------------------------------------------------------------- tool names
\* A tool name is the sequence of its characters, so that str.startswith is
\* computed rather than assumed.
list_issues == <<"l","i","s","t","_","i","s","s","u","e","s">>
list_teams == <<"l","i","s","t","_","t","e","a","m","s">>
get_cycle == <<"g","e","t","_","c","y","c","l","e">>
create_issue == <<"c","r","e","a","t","e","_","i","s","s","u","e">>

ToolNames == {list_issues, list_teams, get_cycle, create_issue}

WRITE_TOOL_PREFIXES ==
    << <<"c","r","e","a","t","e","_">>,
       <<"u","p","d","a","t","e","_">>,
       <<"d","e","l","e","t","e","_">>,
       <<"a","r","c","h","i","v","e","_">>,
       <<"u","n","a","r","c","h","i","v","e","_">>,
       <<"s","e","t","_">>,
       <<"a","d","d","_">>,
       <<"r","e","m","o","v","e","_">>,
       <<"m","o","v","e","_">> >>

\* local_handlers.LOCAL_READ_HANDLERS: the dispatch table of local handlers
LOCAL_READ_HANDLERS == {list_issues, list_teams}

\* str.startswith(prefix)
StartsWith(s, p) == Len(p) <= Len(s) /\ SubSeq(s, 1, Len(p)) = p

\* ToolRouter._is_probable_write_tool
\* mutant: the prefix test is dropped, every tool without a local handler
\* counts as a write
IsProbableWriteTool_AnyUnregistered(tool) == tool \notin LOCAL_READ_HANDLERS

IsProbableWriteTool(tool) ==
    IF tool \in LOCAL_READ_HANDLERS
    THEN FALSE
    ELSE \E i \in 1..Len(WRITE_TOOL_PREFIXES) : StartsWith(tool, WRITE_TOOL_PREFIXES[i])

\* ---------------------------------------------------- arguments and values
\* `arguments or {}`
ArgsOrEmpty(arguments) ==
    IF arguments = None \/ arguments = EmptyDict THEN EmptyDict ELSE arguments

Arguments == {None, EmptyDict, JDict([query |-> JStr("hello")])}

\* what a local handler can return: a mapping, a list, the empty list, None
LocalValues ==
    { JDict([source |-> JStr("local")]),
      JList(<<JStr("a"), JStr("b")>>),
      JList(<<>>),
      None }

\* what the official server can return
UpstreamValues == { JDict([source |-> JStr("remote")]), JList(<<JStr("r")>>) }

\* outcome of one handler invocation: value, LocalFallbackRequested raised by
\* the handler itself (unsupported filter), or any other exception
Return(v) == [kind |-> "return", value |-> v]
Fallback(c) == [kind |-> "fallback", code |-> c]
Crash == [kind |-> "error", code |-> "RuntimeError"]
Raise(c, m) == [kind |-> "raise", code |-> c, message |-> m]

HandlerOutcomes ==
    {Return(v) : v \in LocalValues} \cup {Fallback("unsupported_filter"), Crash}

\* outcome of OfficialMcpSessionManager.call_tool as the router sees it
OfficialOutcomes ==
    {Return(v) : v \in UpstreamValues}
      \cup {Raise("official_tool_error", "bad filter")}
      \cup {Raise("official_unavailable", m) : m \in {"offline", "timeout"}}

\* ----------------------------------------------------------------- state
VARIABLES
    now,                        \* time.time()
    degraded,                   \* reader.is_degraded()
    coherence_window_seconds,   \* ToolRouter._coherence_window_seconds
    remote_reads_until,         \* ToolRouter._remote_reads_until
    pc,                         \* position of the call_read frame
    tool_name,                  \* call_read's tool_name
    args,                       \* call_read's args
    remote_error,               \* call_read's remote_error
    local_exc,                  \* call_read's local_exc (its code)
    result,                     \* what call_read returned or raised
    call_arguments,             \* history: the arguments call_read was given
    entry_recent_write,         \* history: a write succeeded within the window before entry
    last_write_at,              \* history: time of the last successful write, or -1
    last_official,              \* history: the call_official made between two call_reads
    trace                       \* history: upstream and local attempts of this call_read

\* LinearLocalReader (reader.py)
VARIABLES
    force_next_refresh,         \* LinearLocalReader._force_next_refresh
    last_tool_call_at,          \* LinearLocalReader._last_tool_call_at
    loaded_at,                  \* LinearLocalReader._cache.loaded_at
    cache_has_teams,            \* bool(LinearLocalReader._cache.teams)
    refresh_requested,          \* history: a refresh was asked for and no access has served it
    r_event                     \* history: the reader operation that ran last

\* OfficialMcpSessionManager (official_session.py)
VARIABLES
    lock_owner,                 \* holder of OfficialMcpSessionManager._lock, 0 if free
    session,                    \* OfficialMcpSessionManager._session
    session_failed,             \* history: the present session object has failed an attempt
    failure_count,              \* OfficialMcpSessionManager._failure_count
    last_error,                 \* OfficialMcpSessionManager._last_error, as get_health gives it
    s_pc,                       \* per thread: position in call_tool / list_tools
    s_op,                       \* per thread: the operation and its tool name
    s_attempt,                  \* per thread: `attempt` of `for attempt in range(2)`
    s_exc,                      \* per thread: the exception being handled
    s_result,                   \* per thread: what the call returned or raised
    s_log,                      \* history, per thread: the outcome of each attempt
    s_entry                     \* history, per thread: health counters when the lock was taken

\* the token cache of mcp-remote (~/.mcp-auth)
VARIABLES
    token_files,                \* the files under ~/.mcp-auth, each with its directory
    reauth_result               \* history: the last clearing, what it found and returned

token_vars == <<token_files, reauth_result>>

\* LinearLocalReader._reload_cache, step by step and from several threads
VARIABLES
    reload_lock,                \* self._reload_lock: 0, or the thread that holds it
    cache,                      \* self._cache, the installed snapshot
    health,                     \* self._health.reason and .failure_count
    scope_configured,           \* _is_account_scope_enabled()
    l_pc,                       \* where each thread is in its reader call
    l_frame                     \* each thread's locals in _reload_cache

reload_vars == <<reload_lock, cache, health, scope_configured, l_pc, l_frame>>

\* one reload, seen from the records it reads
VARIABLES
    d_databases,                \* the Linear databases found, in loading order
    d_scope,                    \* the configured account e-mails and account ids
    d_pc,                       \* where the reload is
    d_cache,                    \* the local `cache` of _reload_cache
    d_installed                 \* self._cache

snap_vars == <<d_databases, d_scope, d_pc, d_cache, d_installed>>

\* detect_stores over one database, and one find_team lookup
VARIABLES
    ds_pending,                 \* the object stores not looked at yet, in order
    ds_result,                  \* the DetectedStores being filled
    ds_log,                     \* history: the stores looked at and what became of them
    ft_teams,                   \* the teams of the snapshot, in insertion order
    ft_search,                  \* the argument of find_team
    ft_found                    \* what find_team returned

lookup_vars == <<ds_pending, ds_result, ds_log, ft_teams, ft_search, ft_found>>

\* the state of the components specified further down
further_vars == <<token_vars, reload_vars, snap_vars, lookup_vars>>

reader_only == <<force_next_refresh, last_tool_call_at, loaded_at,
                 cache_has_teams, refresh_requested, r_event>>

session_vars == <<lock_owner, session, session_failed, failure_count, last_error,
                  s_pc, s_op, s_attempt, s_exc, s_result, s_log, s_entry>>

vars == <<now, degraded, coherence_window_seconds, remote_reads_until, pc,
          tool_name, args, remote_error, local_exc, result, call_arguments,
          entry_recent_write, last_write_at, last_official, trace,
          reader_only, session_vars, further_vars>>

frame == <<pc, tool_name, args, remote_error, local_exc, result,
           call_arguments, entry_recent_write, trace>>

router_only == <<coherence_window_seconds, remote_reads_until, last_write_at,
                 last_official, frame>>

\* what the router's steps leave alone
beyond_router == <<reader_only, session_vars, further_vars>>

\* names the specification calls write tools
KnownWriteTools == {create_issue}


\* ---------------------------------------------------------- router logic
\* mutant: the deadline is set to the time of the write, the window is lost
MarkRecentWrite_NoWindow(t, window) == t

\* ToolRouter._mark_recent_write: the new value of _remote_reads_until
MarkRecentWrite(t, window) == t + window

\* mutant: the deadline itself still counts as inside the window
ReadRemoteFirst_Inclusive(t, until) == t <= until

\* ToolRouter._read_remote_first
ReadRemoteFirst(t, until) == t < until

\* mutant: every upstream error is treated as a transport failure
IsSemanticError_Never(exc) == FALSE

\* mutant: every upstream failure is re-raised, transport failures included
IsSemanticError_Always(exc) == TRUE

\* `exc.code == "official_tool_error"` in call_read's two OfficialToolError handlers
IsSemanticError(exc) == exc.code = "official_tool_error"

\* the handler is looked up and the reader's health is tested before the
\* handler runs
HandlerInvoked(tool, degr, allow_degraded) ==
    tool \in LOCAL_READ_HANDLERS /\ ~(degr /\ ~allow_degraded)

\* the decoration of a stale value as the specification words it (4.4, Stale
\* marking); router.py has no such step
StaleMark == JDict([stale |-> JBool(TRUE)])

MarkStale(v) ==
    IF v.kind = "dict"
    THEN JDict([k \in DOMAIN v.map \cup {"_metadata"} |->
                   IF k = "_metadata" THEN StaleMark ELSE v.map[k]])
    ELSE IF v.kind = "list"
         THEN JDict([k \in {"results", "_metadata"} |->
                        IF k = "_metadata" THEN StaleMark ELSE v])
         ELSE v

\* mutant: every value a handler returns is decorated as stale
CallLocal_MarksAll(tool, degr, allow_degraded, h) ==
    IF tool \notin LOCAL_READ_HANDLERS
    THEN Fallback("unsupported_tool")
    ELSE IF degr /\ ~allow_degraded
         THEN Fallback("degraded_local")
         ELSE IF h.kind = "return" THEN Return(MarkStale(h.value)) ELSE h

\* mutant: the health test is inverted
CallLocal_InvertedHealth(tool, degr, allow_degraded, h) ==
    IF tool \notin LOCAL_READ_HANDLERS
    THEN Fallback("unsupported_tool")
    ELSE IF ~degr /\ ~allow_degraded
         THEN Fallback("degraded_local")
         ELSE h

\* ToolRouter._call_local; h is what the handler does if it is invoked
CallLocal(tool, degr, allow_degraded, h) ==
    IF tool \notin LOCAL_READ_HANDLERS
    THEN Fallback("unsupported_tool")
    ELSE IF degr /\ ~allow_degraded
         THEN Fallback("degraded_local")
         ELSE h

\* mutant: after a failed remote-first attempt a local fallback request that
\* is not about health goes to the upstream again
AfterLocalFallback_AsksAgain(rerr, code) ==
    IF rerr # None /\ code = "degraded_local" THEN "stale_local" ELSE "fallback_official"

\* mutant: a degraded cache is served at once, the upstream is not asked
AfterLocalFallback_StaleAtOnce(rerr, code) ==
    IF code = "degraded_local"
    THEN "stale_local"
    ELSE IF rerr # None THEN "raise_remote" ELSE "fallback_official"

\* call_read, `except LocalFallbackRequested as local_exc:` up to the
\* upstream fallback: where the frame goes next
AfterLocalFallback(rerr, code) ==
    IF rerr # None
    THEN IF code = "degraded_local" THEN "stale_local" ELSE "raise_remote"
    ELSE "fallback_official"

UpstreamEvent(tool, a, out) ==
    [ev |-> "upstream", tool |-> tool, args |-> a, out |-> out]

LocalEvent(tool, degr, allow_degraded, h, out) ==
    [ev |-> "local", allow_degraded |-> allow_degraded, degraded |-> degr,
     invoked |-> HandlerInvoked(tool, degr, allow_degraded),
     handler |-> IF HandlerInvoked(tool, degr, allow_degraded) THEN h ELSE None,
     out |-> out]

\* mutant: the deadline is moved before the upstream call is known to have
\* succeeded
OfficialCall_MarksBeforeCall(tool, u) ==
    /\ remote_reads_until' =
          IF IsProbableWriteTool(tool)
          THEN MarkRecentWrite(now, coherence_window_seconds)
          ELSE remote_reads_until
    /\ last_write_at' =
          IF u.kind = "return" /\ tool \in KnownWriteTools
          THEN now
          ELSE last_write_at

\* ToolRouter.call_official: the upstream call has outcome u; a successful
\* call of a probable write tool moves the coherence deadline
OfficialCall(tool, u) ==
    /\ remote_reads_until' =
          IF u.kind = "return" /\ IsProbableWriteTool(tool)
          THEN MarkRecentWrite(now, coherence_window_seconds)
          ELSE remote_reads_until
    /\ last_write_at' =
          IF u.kind = "return" /\ tool \in KnownWriteTools
          THEN now
          ELSE last_write_at

\* ------------------------------------------------------------------- Init
\* the threads that call into the session manager
Threads == {1, 2}

\* ToolRouter.__init__, but for the configured window
RouterStart ==
    /\ remote_reads_until = 0
    /\ pc = "idle"
    /\ tool_name = list_issues
    /\ args = EmptyDict
    /\ remote_error = None
    /\ local_exc = None
    /\ result = None
    /\ call_arguments = None
    /\ entry_recent_write = FALSE
    /\ last_write_at = -1
    /\ last_official = None
    /\ trace = <<>>

\* LinearLocalReader.__init__: an empty CachedData, nothing forced, no tool
\* call seen
ReaderStart ==
    /\ force_next_refresh = FALSE
    /\ last_tool_call_at = 0
    /\ loaded_at = 0
    /\ cache_has_teams = FALSE
    /\ refresh_requested = FALSE
    /\ r_event = [op |-> "init"]

\* OfficialMcpSessionManager.__init__: no session, counters at zero
SessionStart ==
    /\ lock_owner = 0
    /\ session = "none"
    /\ session_failed = FALSE
    /\ failure_count = 0
    /\ last_error = None
    /\ s_pc = [t \in Threads |-> "idle"]
    /\ s_op = [t \in Threads |-> None]
    /\ s_attempt = [t \in Threads |-> 0]
    /\ s_exc = [t \in Threads |-> None]
    /\ s_result = [t \in Threads |-> None]
    /\ s_log = [t \in Threads |-> <<>>]
    /\ s_entry = [t \in Threads |-> None]

\* no token file, nothing cleared yet
TokenCacheStart ==
    /\ token_files = {}
    /\ reauth_result = None

\* CachedData(): every map empty, loaded_at = 0.0
NewCache ==
    [stage |-> "new", loaded_at |-> 0, teams |-> FALSE, issues |-> FALSE,
     users |-> FALSE]

\* a thread outside _reload_cache
NoFrame == [via |-> "none"]

\* LinearLocalReader.__init__: an empty snapshot, LocalHealth(), a free lock
ReloadStart ==
    /\ reload_lock = 0
    /\ cache = NewCache
    /\ health = [reason |-> None, failure_count |-> 0]
    /\ scope_configured = FALSE
    /\ l_pc = [t \in Threads |-> "idle"]
    /\ l_frame = [t \in Threads |-> NoFrame]

\* CachedData() with the maps the record-level steps fill
EmptySnapshot ==
    [teams |-> {}, users |-> {}, states |-> {}, issues |-> {}, comments |-> {},
     comments_by_issue |-> <<>>, issue_content |-> {}, projects |-> {},
     cycles |-> {}, milestones |-> {}, project_updates |-> {},
     project_statuses |-> {}]

\* no database, no scope, nothing loaded
SnapshotStart ==
    /\ d_databases = <<>>
    /\ d_scope = [emails |-> {}, account_ids |-> {}]
    /\ d_pc = "load"
    /\ d_cache = EmptySnapshot
    /\ d_installed = EmptySnapshot

\* the kinds of DetectedStores, in the order detect_stores tests them
DETECTION_ORDER ==
    <<"issues", "teams", "users", "workflow_states", "comments", "projects",
      "issue_content", "labels", "initiatives", "project_statuses", "cycles",
      "documents", "document_content", "milestones", "project_updates">>

DetectionKinds == {DETECTION_ORDER[k] : k \in DOMAIN DETECTION_ORDER}

\* DetectedStores(users=[], workflow_states=[], labels=[]): no store named
\* for any kind
NothingDetected == [k \in DetectionKinds |-> <<>>]

\* no database to scan, no lookup made
LookupStart ==
    /\ ds_pending = <<>>
    /\ ds_result = NothingDetected
    /\ ds_log = <<>>
    /\ ft_teams = <<>>
    /\ ft_search = <<>>
    /\ ft_found = [pending |-> TRUE]

FurtherStart == TokenCacheStart /\ ReloadStart /\ SnapshotStart /\ LookupStart

Init ==
    /\ now = 1
    /\ degraded \in BOOLEAN
    /\ coherence_window_seconds \in 0..MaxWindow
    /\ RouterStart
    /\ ReaderStart
    /\ SessionStart
    /\ FurtherStart

\* ---------------------------------------------------------------- actions
\* the clock advances
Tick ==
    /\ now < MaxTime
    /\ now' = now + 1
    /\ UNCHANGED <<degraded, coherence_window_seconds, remote_reads_until,
                   last_write_at, last_official, frame, beyond_router>>

\* LinearLocalReader._set_degraded / _set_healthy at the end of a reload
ReaderHealthChange ==
    /\ degraded' = ~degraded
    /\ UNCHANGED <<now, coherence_window_seconds, remote_reads_until,
                   last_write_at, last_official, frame, beyond_router>>

\* ToolRouter.call_official called by the dispatcher (any thread); its
\* arguments go to the upstream and leave the router's state alone
CallOfficial(tool) ==
    /\ \E u \in OfficialOutcomes :
          /\ OfficialCall(tool, u)
          /\ last_official' = IF pc = "idle"
                              THEN [tool |-> tool, ok |-> (u.kind = "return")]
                              ELSE last_official
    /\ UNCHANGED <<now, degraded, coherence_window_seconds, frame, beyond_router>>

\* call_read: entry, `if self._read_remote_first():`
CallReadEntry(tool, arguments) ==
    /\ pc = "idle"
    /\ tool_name' = tool
    /\ call_arguments' = arguments
    /\ args' = ArgsOrEmpty(arguments)
    /\ remote_error' = None
    /\ local_exc' = None
    /\ result' = None
    /\ trace' = <<>>
    /\ entry_recent_write' =
          (last_write_at # -1 /\ now < last_write_at + coherence_window_seconds)
    /\ pc' = IF ReadRemoteFirst(now, remote_reads_until) THEN "remote_first" ELSE "local"
    /\ last_official' = None
    /\ UNCHANGED <<now, degraded, coherence_window_seconds, remote_reads_until,
                   last_write_at, beyond_router>>

\* call_read: `return self.call_official(tool_name, args)` on the
\* remote-first path and its `except OfficialToolError`
RemoteFirstAttempt ==
    /\ pc = "remote_first"
    /\ \E u \in OfficialOutcomes :
          /\ OfficialCall(tool_name, u)
          /\ trace' = Append(trace, UpstreamEvent(tool_name, args, u))
          /\ IF u.kind = "return"
             THEN pc' = "returned" /\ result' = u /\ remote_error' = remote_error
             ELSE IF IsSemanticError(u)
                  THEN pc' = "raised" /\ result' = u /\ remote_error' = remote_error
                  ELSE pc' = "local" /\ result' = result /\ remote_error' = u
    /\ UNCHANGED <<beyond_router, last_official, now, degraded, coherence_window_seconds,
                   tool_name, args,
                   local_exc, call_arguments, entry_recent_write>>

\* call_read: `return self._call_local(tool_name, args)` and the dispatch of
\* what it raises
LocalAttempt ==
    /\ pc = "local"
    /\ \E h \in HandlerOutcomes :
          LET out == CallLocal(tool_name, degraded, FALSE, h) IN
          /\ trace' = Append(trace, LocalEvent(tool_name, degraded, FALSE, h, out))
          /\ CASE out.kind = "return" ->
                    pc' = "returned" /\ result' = out /\ local_exc' = local_exc
               [] out.kind = "fallback" ->
                    /\ local_exc' = out.code
                    /\ LET next == AfterLocalFallback(remote_error, out.code) IN
                       IF next = "raise_remote"
                       THEN pc' = "raised" /\ result' = remote_error
                       ELSE pc' = next /\ result' = result
               [] OTHER ->
                    pc' = "unexpected_official" /\ result' = result /\ local_exc' = local_exc
    /\ UNCHANGED <<now, degraded, coherence_window_seconds, remote_reads_until,
                   last_write_at, last_official, beyond_router, tool_name, args,
                   remote_error, call_arguments, entry_recent_write>>

\* call_read: the upstream fallback of the local-first path and its
\* `except OfficialToolError as official_exc`
FallbackOfficial ==
    /\ pc = "fallback_official"
    /\ \E u \in OfficialOutcomes :
          /\ OfficialCall(tool_name, u)
          /\ trace' = Append(trace, UpstreamEvent(tool_name, args, u))
          /\ IF u.kind = "return"
             THEN pc' = "returned" /\ result' = u
             ELSE IF IsSemanticError(u)
                  THEN pc' = "raised" /\ result' = u
                  ELSE IF local_exc = "degraded_local"
                       THEN pc' = "stale_local" /\ result' = result
                       ELSE pc' = "raised" /\ result' = u
    /\ UNCHANGED <<beyond_router, last_official, now, degraded, coherence_window_seconds,
                   tool_name, args,
                   remote_error, local_exc, call_arguments, entry_recent_write>>

\* call_read: `return self._call_local(tool_name, args, allow_degraded=True)`
\* (both places); it runs inside the except block, so whatever it raises
\* leaves call_read
StaleLocalAttempt ==
    /\ pc = "stale_local"
    /\ \E h \in HandlerOutcomes :
          LET out == CallLocal(tool_name, degraded, TRUE, h) IN
          /\ trace' = Append(trace, LocalEvent(tool_name, degraded, TRUE, h, out))
          /\ result' = out
          /\ pc' = IF out.kind = "return" THEN "returned" ELSE "raised"
    /\ UNCHANGED <<now, degraded, coherence_window_seconds, remote_reads_until,
                   last_write_at, last_official, beyond_router, tool_name, args,
                   remote_error, local_exc, call_arguments, entry_recent_write>>

\* call_read: `except Exception:` -> `return self.call_official(tool_name, args)`
UnexpectedOfficial ==
    /\ pc = "unexpected_official"
    /\ \E u \in OfficialOutcomes :
          /\ OfficialCall(tool_name, u)
          /\ trace' = Append(trace, UpstreamEvent(tool_name, args, u))
          /\ result' = u
          /\ pc' = IF u.kind = "return" THEN "returned" ELSE "raised"
    /\ UNCHANGED <<beyond_router, last_official, now, degraded, coherence_window_seconds,
                   tool_name, args,
                   remote_error, local_exc, call_arguments, entry_recent_write>>

\* call_read has returned or raised; the frame is gone
CallReadExit ==
    /\ pc \in {"returned", "raised"}
    /\ pc' = "idle"
    /\ tool_name' = list_issues
    /\ args' = EmptyDict
    /\ remote_error' = None
    /\ local_exc' = None
    /\ result' = None
    /\ call_arguments' = None
    /\ entry_recent_write' = FALSE
    /\ trace' = <<>>
    /\ UNCHANGED <<now, degraded, coherence_window_seconds, remote_reads_until,
                   last_write_at, last_official, beyond_router>>

Next ==
    \/ Tick
    \/ ReaderHealthChange
    \/ \E tool \in ToolNames : CallOfficial(tool)
    \/ \E tool \in ToolNames, arguments \in Arguments : CallReadEntry(tool, arguments)
    \/ RemoteFirstAttempt
    \/ LocalAttempt
    \/ FallbackOfficial
    \/ StaleLocalAttempt
    \/ UnexpectedOfficial
    \/ CallReadExit

Spec == Init /\ [][Next]_vars

TypeOK ==
    /\ now \in 1..MaxTime
    /\ degraded \in BOOLEAN
    /\ pc \in {"idle", "remote_first", "local", "fallback_official",
               "stale_local", "unexpected_official", "returned", "raised"}
    /\ Len(trace) <= 3


\* ------------------------------------------------------- claim vocabulary
Last(s) == s[Len(s)]

UpstreamCount == Cardinality({i \in 1..Len(trace) : trace[i].ev = "upstream"})

HandlerCount ==
    Cardinality({i \in 1..Len(trace) : trace[i].ev = "local" /\ trace[i].invoked})

\* the arguments the caller gave, an absent mapping read as the empty one
GivenArguments == IF call_arguments = None THEN EmptyDict ELSE call_arguments

HasMetadata(v) == v.kind = "dict" /\ "_metadata" \in DOMAIN v.map

HasStaleMetadata(v) == HasMetadata(v) /\ v.map["_metadata"] = StaleMark

\* call_read has returned what the handler produced when run with
\* allow_degraded=True on a degraded reader
StaleReturn ==
    /\ pc = "returned"
    /\ Last(trace).ev = "local"
    /\ Last(trace).allow_degraded
    /\ Last(trace).degraded

\* ----------------------------------------------------------------- claims

\* C1: a call_read entered less than coherence_window seconds after a
\* successful call_official of a write tool starts with an upstream call_tool
\* for the same tool and arguments; no local attempt precedes it, and if it
\* succeeds its result is returned with no local attempt at all.
C1_RemoteFirstAfterWrite ==
    (pc # "idle" /\ entry_recent_write) =>
        IF trace = <<>>
        THEN pc = "remote_first"
        ELSE /\ trace[1].ev = "upstream"
             /\ trace[1].tool = tool_name
             /\ trace[1].args = GivenArguments
             /\ trace[1].out.kind = "return" =>
                   (pc = "returned" /\ result = trace[1].out /\ Len(trace) = 1)

C1_Witness ==
    /\ pc = "returned"
    /\ entry_recent_write
    /\ Len(trace) = 1
    /\ trace[1].ev = "upstream"
    /\ tool_name = list_issues

\* C2: an upstream attempt of call_read that fails with official_tool_error
\* is the last attempt of that call_read, and call_read raises that error.
C2_SemanticErrorNeverMasked ==
    \A i \in 1..Len(trace) :
        (/\ trace[i].ev = "upstream"
         /\ trace[i].out.kind = "raise"
         /\ trace[i].out.code = "official_tool_error")
        => (i = Len(trace) /\ pc = "raised" /\ result = trace[i].out)

C2_Witness ==
    /\ pc = "raised"
    /\ entry_recent_write
    /\ Len(trace) = 1
    /\ result = Raise("official_tool_error", "bad filter")
    /\ tool_name \in LOCAL_READ_HANDLERS

\* C3: a value returned from the degraded local fallback carries
\* _metadata.stale = true.
C3_StaleFallbackHasMetadata ==
    StaleReturn => HasStaleMetadata(result.value)

\* C4: a value that came from the upstream, or from a handler run while the
\* reader was not degraded, is returned as it is, without _metadata.
C4_NoMetadataOnFreshOrUpstream ==
    pc = "returned" =>
        LET e == Last(trace) IN
        /\ e.ev = "upstream" => (result = e.out /\ ~HasMetadata(result.value))
        /\ (e.ev = "local" /\ ~e.degraded) =>
              (result = e.handler /\ ~HasMetadata(result.value))

C4_Witness ==
    /\ pc = "returned"
    /\ Len(trace) = 2
    /\ trace[1].ev = "upstream"
    /\ trace[2].ev = "local"
    /\ ~trace[2].degraded
    /\ result.value.kind = "dict"

\* C5: the degraded fallback of a handler that returned a mapping M returns
\* M's keys with M's values plus _metadata, and M itself has no _metadata.
C5_StaleDictPreserved ==
    (StaleReturn /\ Last(trace).handler.value.kind = "dict") =>
        LET M == Last(trace).handler.value.map
            V == result.value
        IN /\ V.kind = "dict"
           /\ DOMAIN V.map = DOMAIN M \cup {"_metadata"}
           /\ \A k \in DOMAIN M : V.map[k] = M[k]
           /\ "_metadata" \notin DOMAIN M

\* C6: the degraded fallback of a handler that returned a list L (also the
\* empty list) returns {results: L, _metadata: {stale: true}}.
C6_StaleListWrapped ==
    (StaleReturn /\ Last(trace).handler.value.kind = "list") =>
        result.value =
            JDict([k \in {"results", "_metadata"} |->
                      IF k = "_metadata" THEN StaleMark ELSE Last(trace).handler.value])

\* C7: a call_read entered before any write, or coherence_window seconds or
\* more after the last successful write, tries the local path before any
\* upstream call.
C7_LocalFirstOutsideWindow ==
    (pc # "idle" /\ ~entry_recent_write) =>
        IF trace = <<>> THEN pc = "local" ELSE trace[1].ev = "local"

C7_Witness ==
    /\ pc = "returned"
    /\ ~entry_recent_write
    /\ last_write_at # -1
    /\ coherence_window_seconds > 0
    /\ now = last_write_at + coherence_window_seconds
    /\ trace[1].ev = "local"

\* C8: with no write within the window, a healthy reader and a registered
\* handler that returns, call_read returns the handler's value and makes no
\* upstream call.
C8_HealthyLocalNoUpstream ==
    (/\ pc # "idle"
     /\ ~entry_recent_write
     /\ trace # <<>>
     /\ trace[1].ev = "local"
     /\ ~trace[1].degraded
     /\ tool_name \in LOCAL_READ_HANDLERS
     /\ trace[1].handler.kind = "return")
    => (pc = "returned" /\ result = trace[1].handler /\ Len(trace) = 1
        /\ UpstreamCount = 0)

C8_Witness ==
    /\ pc = "returned"
    /\ ~entry_recent_write
    /\ Len(trace) = 1
    /\ trace[1].ev = "local"
    /\ trace[1].invoked
    /\ ~trace[1].degraded
    /\ result = Return(JDict([source |-> JStr("local")]))

\* C9: on the local-first path, when the local attempt requests fallback the
\* upstream is called exactly once, with the tool name and arguments of the
\* call_read, and a successful upstream result is what call_read returns.
C9_LocalFallbackCallsUpstreamOnce ==
    (/\ pc # "idle"
     /\ trace # <<>>
     /\ trace[1].ev = "local"
     /\ trace[1].out.kind = "fallback")
    => IF Len(trace) = 1
       THEN pc = "fallback_official"
       ELSE /\ trace[2].ev = "upstream"
            /\ trace[2].tool = tool_name
            /\ trace[2].args = GivenArguments
            /\ UpstreamCount = 1
            /\ trace[2].out.kind = "return" =>
                  (pc = "returned" /\ result = trace[2].out /\ Len(trace) = 2)

C9_Witness ==
    /\ pc = "returned"
    /\ Len(trace) = 2
    /\ trace[1].ev = "local"
    /\ trace[1].out = Fallback("unsupported_filter")
    /\ trace[2].ev = "upstream"
    /\ call_arguments = JDict([query |-> JStr("hello")])
    /\ result = trace[2].out

\* C10: on the local-first path, when the reader is degraded and the one
\* upstream attempt fails with a transport error, call_read does not raise:
\* the handler is invoked exactly once, with degraded data allowed, its
\* payload is returned, and exactly one upstream call was made.
C10_DegradedTransportFailureServesLocal ==
    (/\ pc # "idle"
     /\ Len(trace) >= 2
     /\ trace[1].ev = "local"
     /\ trace[1].out = Fallback("degraded_local")
     /\ trace[2].ev = "upstream"
     /\ trace[2].out.kind = "raise"
     /\ trace[2].out.code # "official_tool_error")
    => IF Len(trace) = 2
       THEN pc = "stale_local"
       ELSE /\ pc = "returned"
            /\ Len(trace) = 3
            /\ trace[3].ev = "local"
            /\ trace[3].allow_degraded
            /\ trace[3].invoked
            /\ result = trace[3].handler
            /\ UpstreamCount = 1
            /\ HandlerCount = 1

\* the first attempt of this call_read was the upstream, inside the coherence
\* window, and it failed with a transport error
RemoteFirstTransportFailure ==
    /\ entry_recent_write
    /\ Len(trace) >= 1
    /\ trace[1].ev = "upstream"
    /\ trace[1].out.kind = "raise"
    /\ trace[1].out.code # "official_tool_error"

\* C11 as stated: within the coherence window, when the upstream attempt
\* fails with a transport error and the reader is healthy, call_read (of a
\* tool that has a local handler) returns the local handler's result, and
\* the upstream was attempted once.
C11_AsStated ==
    (/\ RemoteFirstTransportFailure
     /\ pc \in {"returned", "raised"}
     /\ Len(trace) >= 2
     /\ trace[2].ev = "local"
     /\ ~trace[2].degraded
     /\ trace[2].invoked)
    => (/\ pc = "returned"
        /\ result = trace[2].handler
        /\ UpstreamCount = 1)

\* C11: within the coherence window, when the upstream attempt fails with a
\* transport error, the local path is tried next; if the reader is healthy
\* and the tool's registered handler returns a value, call_read returns that
\* value unmarked, after one upstream attempt and one handler invocation.
C11_HealthyLocalAfterRemoteFailure ==
    RemoteFirstTransportFailure =>
        /\ Len(trace) = 1 => pc = "local"
        /\ (/\ Len(trace) >= 2
            /\ trace[2].ev = "local"
            /\ ~trace[2].degraded
            /\ trace[2].invoked
            /\ trace[2].handler.kind = "return")
           => (/\ pc = "returned"
               /\ Len(trace) = 2
               /\ result = trace[2].handler
               /\ ~HasMetadata(result.value)
               /\ UpstreamCount = 1
               /\ HandlerCount = 1)

C11_Witness ==
    /\ RemoteFirstTransportFailure
    /\ pc = "returned"
    /\ Len(trace) = 2
    /\ tool_name = list_issues
    /\ ~trace[2].degraded
    /\ result = Return(JList(<<JStr("a"), JStr("b")>>))

\* C12: within the coherence window, when the upstream attempt fails with a
\* transport error and the reader is degraded, call_read returns the local
\* payload marked stale, and the upstream is not attempted a second time.
C12_StaleFallbackInWindow ==
    (/\ RemoteFirstTransportFailure
     /\ Len(trace) >= 2
     /\ trace[2].ev = "local"
     /\ trace[2].out = Fallback("degraded_local"))
    => IF Len(trace) = 2
       THEN pc = "stale_local"
       ELSE /\ Len(trace) = 3
            /\ trace[3].ev = "local"
            /\ trace[3].allow_degraded
            /\ trace[3].invoked
            /\ pc = "returned"
            /\ result = Return(MarkStale(trace[3].handler.value))
            /\ UpstreamCount = 1

\* C13: when a registered handler raises an exception that is not
\* LocalFallbackRequested, the next attempt of call_read is the upstream, and
\* the caller gets the upstream's result or its OfficialToolError, never the
\* handler's exception.
C13_LocalCrashFallsBackToUpstream ==
    \A i \in 1..Len(trace) :
        (trace[i].ev = "local" /\ trace[i].invoked /\ trace[i].handler = Crash)
        => IF i = Len(trace)
           THEN pc = "unexpected_official"
           ELSE /\ trace[i + 1].ev = "upstream"
                /\ result = trace[i + 1].out

\* C14: a call_read that raises raises OfficialToolError; a
\* LocalFallbackRequested never leaves call_read.
C14_OnlyOfficialToolErrorEscapes ==
    pc = "raised" => result.kind = "raise"

EnsureFreshCalls ==
    Cardinality({i \in 1..Len(trace) : trace[i].ev = "ensure_fresh"})

\* C16: a call_read has invoked reader.ensure_fresh() once for its entry and
\* once more for each call_official it has made.
C16_EnsureFreshAtEveryEntry ==
    pc # "idle" => EnsureFreshCalls = 1 + UpstreamCount

\* ================================================= the local reader's cache
\* Time is counted in units of 30 seconds here.
CACHE_TTL_SECONDS == 10

IDLE_REFRESH_THRESHOLD_SECONDS == 2

\* what the reader's steps leave alone
beyond_reader == <<router_only, session_vars, further_vars>>

\* mutant: a snapshot exactly TTL old counts as expired
IsExpired_Inclusive(t, loaded) == t - loaded >= CACHE_TTL_SECONDS

\* CachedData.is_expired
IsExpired(t, loaded) == t - loaded > CACHE_TTL_SECONDS

\* mutant: equality does not count as an idle gap
IdleGapReached_Strict(last, t) ==
    last # 0 /\ t - last > IDLE_REFRESH_THRESHOLD_SECONDS

\* ensure_fresh: `if last == 0.0: return` and
\* `if now - last >= IDLE_REFRESH_THRESHOLD_SECONDS:`
IdleGapReached(last, t) ==
    last # 0 /\ t - last >= IDLE_REFRESH_THRESHOLD_SECONDS

\* mutant: the forcing flag is not looked at
NeedsReload_IgnoresFlag(force, expired, has_teams) == expired \/ ~has_teams

\* _ensure_cache: `self._force_next_refresh or self._cache.is_expired() or
\* not self._cache.teams`
NeedsReload(force, expired, has_teams) == force \/ expired \/ ~has_teams

\* what _reload_cache can do: build a snapshot (with or without teams; the
\* reader ends healthy only if the snapshot has its required entities and no
\* store failed) or raise
ReloadOutcomes ==
    { [ok |-> TRUE, teams |-> TRUE, degraded |-> FALSE],
      [ok |-> TRUE, teams |-> TRUE, degraded |-> TRUE],
      [ok |-> TRUE, teams |-> FALSE, degraded |-> TRUE],
      [ok |-> FALSE, teams |-> FALSE, degraded |-> TRUE] }

\* LinearLocalReader._reload_cache with outcome o: a new snapshot replaces the
\* old one, or the old one stays and the reader is degraded
ReloadCache(o) ==
    /\ loaded_at' = IF o.ok THEN now ELSE loaded_at
    /\ cache_has_teams' = IF o.ok THEN o.teams ELSE cache_has_teams
    /\ degraded' = o.degraded

InitReader ==
    /\ now = 1
    /\ degraded = FALSE
    /\ coherence_window_seconds = MaxWindow
    /\ RouterStart
    /\ ReaderStart
    /\ SessionStart
    /\ FurtherStart

ReaderTick ==
    /\ now < MaxReaderTime
    /\ now' = now + 1
    /\ UNCHANGED <<degraded, reader_only, beyond_reader>>

\* LinearLocalReader.ensure_fresh
EnsureFresh ==
    /\ last_tool_call_at' = now
    /\ force_next_refresh' =
          IF IdleGapReached(last_tool_call_at, now) THEN TRUE ELSE force_next_refresh
    /\ refresh_requested' =
          (\/ refresh_requested
           \/ (/\ last_tool_call_at # 0
               /\ now - last_tool_call_at >= IDLE_REFRESH_THRESHOLD_SECONDS))
    /\ r_event' = [op |-> "ensure_fresh", at |-> now, last |-> last_tool_call_at,
                   flag_before |-> force_next_refresh]
    /\ UNCHANGED <<now, degraded, loaded_at, cache_has_teams, beyond_reader>>

\* LinearLocalReader.mark_stale
ReaderMarkStale ==
    /\ force_next_refresh' = TRUE
    /\ r_event' = [op |-> "mark_stale"]
    /\ UNCHANGED <<now, degraded, last_tool_call_at, loaded_at, cache_has_teams,
                   refresh_requested, beyond_reader>>

\* LinearLocalReader._ensure_cache: one cache access (any of the properties
\* and lookups that start with it)
EnsureCache ==
    LET expired == IsExpired(now, loaded_at)
        reload == NeedsReload(force_next_refresh, expired, cache_has_teams)
        access(reloaded, raised) ==
            [op |-> "access", requested |-> refresh_requested,
             flag_before |-> force_next_refresh, expired |-> expired,
             age |-> now - loaded_at,
             had_teams |-> cache_has_teams, reloaded |-> reloaded,
             raised |-> raised]
    IN
    /\ IF reload
       THEN /\ force_next_refresh' = FALSE
            /\ \E o \in ReloadOutcomes :
                  /\ ReloadCache(o)
                  /\ r_event' = access(TRUE, ~o.ok)
       ELSE /\ r_event' = access(FALSE, FALSE)
            /\ UNCHANGED <<force_next_refresh, loaded_at, cache_has_teams, degraded>>
    /\ refresh_requested' = FALSE
    /\ UNCHANGED <<now, last_tool_call_at, beyond_reader>>

\* LinearLocalReader.refresh_cache(force=True): a reload that does not look
\* at, or clear, the forcing flag
RefreshCache ==
    /\ \E o \in ReloadOutcomes :
          /\ ReloadCache(o)
          /\ r_event' = [op |-> "refresh_cache", raised |-> ~o.ok]
    /\ UNCHANGED <<now, force_next_refresh, last_tool_call_at, refresh_requested,
                   beyond_reader>>

NextReader ==
    \/ ReaderTick
    \/ EnsureFresh
    \/ ReaderMarkStale
    \/ EnsureCache
    \/ RefreshCache

SpecReader == InitReader /\ [][NextReader]_vars

\* C17: a cache access that follows an ensure_fresh() which saw an idle gap
\* of at least IDLE_REFRESH_THRESHOLD_SECONDS runs _reload_cache, whatever
\* the age of the snapshot, and leaves the forcing flag clear; an access that
\* finds the flag clear, the snapshot within TTL and teams loaded does not
\* reload.
C17_IdleGapForcesOneReload ==
    r_event.op = "access" =>
        /\ r_event.requested => (r_event.reloaded /\ ~force_next_refresh)
        /\ (~r_event.flag_before /\ ~r_event.expired /\ r_event.had_teams)
              => ~r_event.reloaded
        /\ r_event.reloaded => ~force_next_refresh

C17_Witness ==
    /\ r_event.op = "access"
    /\ r_event.requested
    /\ ~r_event.expired
    /\ r_event.had_teams
    /\ r_event.reloaded
    /\ ~r_event.raised
    /\ loaded_at = now

\* C18: ensure_fresh() records the time of the call as the last tool-call
\* time, and leaves the forcing flag set exactly if it was set before or a
\* previous call exists and lies at least IDLE_REFRESH_THRESHOLD_SECONDS back.
C18_EnsureFreshFlag ==
    r_event.op = "ensure_fresh" =>
        /\ last_tool_call_at = r_event.at
        /\ force_next_refresh =
              (\/ r_event.flag_before
               \/ (/\ r_event.last # 0
                   /\ r_event.at - r_event.last >= IDLE_REFRESH_THRESHOLD_SECONDS))

C18_Witness ==
    /\ r_event.op = "ensure_fresh"
    /\ r_event.last # 0
    /\ r_event.at - r_event.last = IDLE_REFRESH_THRESHOLD_SECONDS
    /\ ~r_event.flag_before
    /\ force_next_refresh

\* ============================================ the official session manager
\* what the session manager's steps leave alone
beyond_session == <<now, degraded, router_only, reader_only, further_vars>>

\* `for attempt in range(2):`
ATTEMPTS == 2

TextBlock(text) == [type |-> "text", text |-> text]

ImageBlock == [type |-> "image", text |-> ""]

\* a CallToolResult of the MCP client
ToolResult(isError, structured, content) ==
    [isError |-> isError, structuredContent |-> structured, content |-> content]

\* the results the upstream can send for a call_tool
ToolResults ==
    { ToolResult(TRUE, None, <<TextBlock("bad filter")>>),
      ToolResult(TRUE, None, <<ImageBlock>>),
      ToolResult(FALSE, JDict([source |-> JStr("remote")]), <<TextBlock("ignored")>>),
      ToolResult(FALSE, None, <<TextBlock("[\"r\"]")>>),
      ToolResult(FALSE, None, <<ImageBlock, TextBlock("hello"), TextBlock("world")>>),
      ToolResult(FALSE, None, <<>>) }

\* the tools attribute of a ListToolsResult: the names of the tools
ToolLists == { <<"list_issues", "", "create_issue">>, <<>> }

\* an exception that is not an OfficialToolError
Exc(class, msg) == [kind |-> "exception", class |-> class, message |-> msg]

ConnectErrors == { Exc("ConnectionError", "refused") }

CallErrors == { Exc("TimeoutError", "timed out") }

RECURSIVE JoinLines(_)
\* "\n".join(texts)
JoinLines(texts) ==
    IF texts = <<>> THEN ""
    ELSE IF Len(texts) = 1 THEN texts[1]
         ELSE texts[1] \o "\n" \o JoinLines(Tail(texts))

IsTextBlock(block) == block.type = "text" /\ block.text # ""

\* OfficialMcpSessionManager._extract_text (the texts of the model carry no
\* outer whitespace, so strip() has nothing to remove)
ExtractText(r) ==
    LET blocks == SelectSeq(r.content, IsTextBlock)
    IN JoinLines([i \in 1..Len(blocks) |-> blocks[i].text])

\* json.loads on the texts of the model: the JSON documents among them and
\* their values; any other text is not JSON
JsonDocuments == [t \in {"[\"r\"]"} |-> JList(<<JStr("r")>>)]

\* result.model_dump()
ModelDump(r) ==
    JDict([content |-> JList(<<>>), structuredContent |-> None,
           isError |-> JBool(r.isError)])

\* OfficialMcpSessionManager._normalize_result: the value it returns or the
\* OfficialToolError it raises
NormalizeResult(r) ==
    LET text == ExtractText(r) IN
    IF r.isError
    THEN Raise("official_tool_error",
               IF text # "" THEN text ELSE "official MCP returned an error")
    ELSE IF r.structuredContent # None
         THEN Return(r.structuredContent)
         ELSE IF text # ""
              THEN IF text \in DOMAIN JsonDocuments
                   THEN Return(JsonDocuments[text])
                   ELSE Return(JDict([text |-> JStr(text)]))
              ELSE Return(ModelDump(r))

IsName(n) == n # ""

\* mutant: list_tools returns the names as they come, empty ones included
ToolNamesOf_Unfiltered(tools) == tools

\* list_tools: `[t.name for t in tools if getattr(t, "name", None)]`
ToolNamesOf(tools) == SelectSeq(tools, IsName)

\* mutant: a semantic tool error is handled like a transport failure
SemanticToolError_Never(exc) == FALSE

\* call_tool: `if exc.code == "official_tool_error": raise`
SemanticToolError(exc) == exc.code = "official_tool_error"

\* mutant: the first failure is final, there is no retry
AfterFailure_NoRetry(attempt) == "raise"

\* call_tool / list_tools after a failed attempt: `if attempt == 1: raise`,
\* else the next round of the loop, if range(2) has one
AfterFailure(attempt) ==
    IF attempt = 1 THEN "raise"
    ELSE IF attempt + 1 < ATTEMPTS THEN "retry" ELSE "exhausted"

\* _record_failure: f"{exc.__class__.__name__}: {exc}"
ErrorText(exc) ==
    IF exc.kind = "raise"
    THEN "OfficialToolError: " \o exc.message
    ELSE exc.class \o ": " \o exc.message

\* what the call raises when its last attempt failed with exc
FinalError(op, exc) ==
    IF op.op = "call_tool"
    THEN IF exc.kind = "raise"
         THEN exc
         ELSE Raise("official_unavailable",
                    "official MCP call failed for tool '" \o op.name \o "': "
                        \o exc.message)
    ELSE Raise("official_unavailable",
               "official MCP list_tools failed: " \o exc.message)

\* what the call gives when the loop ends without a last attempt
Exhausted(op) ==
    IF op.op = "call_tool"
    THEN Raise("official_unavailable", "official MCP unavailable")
    ELSE Return(<<>>)

InitSession ==
    /\ now = 1
    /\ degraded = FALSE
    /\ coherence_window_seconds = MaxWindow
    /\ RouterStart
    /\ ReaderStart
    /\ SessionStart
    /\ FurtherStart

\* one attempt as the history keeps it: what the upstream did, and the
\* health counter and session as the attempt found them
Attempt(stage, out) ==
    [stage |-> stage, out |-> out, failures |-> failure_count, session |-> session]

\* mutant: the lock is taken whoever holds it
LockFree_Always(owner) == TRUE

\* threading.RLock as another thread sees it: free when nobody holds it
LockFree(owner) == owner = 0

\* a thread enters call_tool(name) or list_tools()
SessionEnter(t, op) ==
    /\ s_pc[t] = "idle"
    /\ s_pc' = [s_pc EXCEPT ![t] = "acquire"]
    /\ s_op' = [s_op EXCEPT ![t] = op]
    /\ UNCHANGED <<lock_owner, session, session_failed, failure_count, last_error,
                   s_attempt, s_exc, s_result, s_log, s_entry, beyond_session>>

\* call_tool(name)
CallTool(t, name) ==
    /\ t \in Threads
    /\ SessionEnter(t, [op |-> "call_tool", name |-> name])

\* list_tools()
ListTools(t) ==
    /\ t \in Threads
    /\ SessionEnter(t, [op |-> "list_tools", name |-> ""])

\* `with self._lock:` and the first round of `for attempt in range(2):`
AcquireLock(t) ==
    /\ s_pc[t] = "acquire"
    /\ LockFree(lock_owner)
    /\ failure_count + ATTEMPTS <= MaxFailures
    /\ lock_owner' = t
    /\ s_attempt' = [s_attempt EXCEPT ![t] = 0]
    /\ s_entry' = [s_entry EXCEPT ![t] =
                      [failures |-> failure_count, session |-> session]]
    /\ s_pc' = [s_pc EXCEPT ![t] = "connect"]
    /\ UNCHANGED <<session, session_failed, failure_count, last_error, s_op, s_exc,
                   s_result, s_log, beyond_session>>

\* `self._ensure_connected()`: _connect_async returns at once if a session
\* object exists; otherwise it opens the transport and the session and
\* initializes it, and may fail before or after `self._session` is assigned
EnsureConnected(t) ==
    /\ s_pc[t] = "connect"
    /\ IF session # "none"
       THEN /\ s_pc' = [s_pc EXCEPT ![t] = "call"]
            /\ UNCHANGED <<session, session_failed, s_exc, s_log>>
       ELSE \/ /\ session' = "ready"
               /\ session_failed' = FALSE
               /\ s_pc' = [s_pc EXCEPT ![t] = "call"]
               /\ UNCHANGED <<s_exc, s_log>>
            \/ \E e \in ConnectErrors, made \in {"none", "uninitialized"} :
                  /\ session' = made
                  /\ session_failed' = FALSE
                  /\ s_exc' = [s_exc EXCEPT ![t] = e]
                  /\ s_log' = [s_log EXCEPT ![t] = Append(@, Attempt("connect", e))]
                  /\ s_pc' = [s_pc EXCEPT ![t] = "failed"]
    /\ UNCHANGED <<lock_owner, failure_count, last_error, s_op, s_attempt, s_result,
                   s_entry, beyond_session>>

\* the rest of the try block of call_tool: the upstream call, normalization,
\* _record_success and return, or the exception that ends the attempt
SubmitCallTool(t) ==
    /\ s_pc[t] = "call"
    /\ s_op[t].op = "call_tool"
    /\ \E out \in ToolResults \cup CallErrors :
          /\ s_log' = [s_log EXCEPT ![t] = Append(@, Attempt("call", out))]
          /\ IF out \in CallErrors
             THEN /\ s_exc' = [s_exc EXCEPT ![t] = out]
                  /\ s_pc' = [s_pc EXCEPT ![t] = "failed"]
                  /\ UNCHANGED <<failure_count, last_error, s_result>>
             ELSE LET n == NormalizeResult(out) IN
                  IF n.kind = "return"
                  THEN /\ failure_count' = 0
                       /\ last_error' = None
                       /\ s_result' = [s_result EXCEPT ![t] = n]
                       /\ s_pc' = [s_pc EXCEPT ![t] = "release"]
                       /\ UNCHANGED s_exc
                  ELSE IF SemanticToolError(n)
                       THEN /\ s_result' = [s_result EXCEPT ![t] = n]
                            /\ s_pc' = [s_pc EXCEPT ![t] = "release"]
                            /\ UNCHANGED <<failure_count, last_error, s_exc>>
                       ELSE /\ s_exc' = [s_exc EXCEPT ![t] = n]
                            /\ s_pc' = [s_pc EXCEPT ![t] = "failed"]
                            /\ UNCHANGED <<failure_count, last_error, s_result>>
    /\ UNCHANGED <<lock_owner, session, session_failed, s_op, s_attempt, s_entry,
                   beyond_session>>

\* the rest of the try block of list_tools
SubmitListTools(t) ==
    /\ s_pc[t] = "call"
    /\ s_op[t].op = "list_tools"
    /\ \/ \E e \in CallErrors :
             /\ s_log' = [s_log EXCEPT ![t] = Append(@, Attempt("call", e))]
             /\ s_exc' = [s_exc EXCEPT ![t] = e]
             /\ s_pc' = [s_pc EXCEPT ![t] = "failed"]
             /\ UNCHANGED <<failure_count, last_error, s_result>>
       \/ \E tools \in ToolLists :
             /\ s_log' = [s_log EXCEPT ![t] =
                             Append(@, Attempt("call", [tools |-> tools]))]
             /\ failure_count' = 0
             /\ last_error' = None
             /\ s_result' = [s_result EXCEPT ![t] = Return(ToolNamesOf(tools))]
             /\ s_pc' = [s_pc EXCEPT ![t] = "release"]
             /\ UNCHANGED s_exc
    /\ UNCHANGED <<lock_owner, session, session_failed, s_op, s_attempt, s_entry,
                   beyond_session>>

\* the except blocks after a failed attempt: _record_failure, the disconnect
\* (which clears the session unless submitting it fails), then the raise or
\* the next round
HandleFailure(t) ==
    /\ s_pc[t] = "failed"
    /\ failure_count' = failure_count + 1
    /\ last_error' = JStr(ErrorText(s_exc[t]))
    /\ \E cleared \in BOOLEAN :
          /\ session' = IF cleared THEN "none" ELSE session
          /\ session_failed' = (session' # "none")
    /\ LET next == AfterFailure(s_attempt[t]) IN
       CASE next = "raise" ->
              /\ s_result' = [s_result EXCEPT ![t] = FinalError(s_op[t], s_exc[t])]
              /\ s_pc' = [s_pc EXCEPT ![t] = "release"]
              /\ UNCHANGED s_attempt
         [] next = "retry" ->
              /\ s_attempt' = [s_attempt EXCEPT ![t] = @ + 1]
              /\ s_pc' = [s_pc EXCEPT ![t] = "connect"]
              /\ UNCHANGED s_result
         [] OTHER ->
              /\ s_result' = [s_result EXCEPT ![t] = Exhausted(s_op[t])]
              /\ s_pc' = [s_pc EXCEPT ![t] = "release"]
              /\ UNCHANGED s_attempt
    /\ s_exc' = [s_exc EXCEPT ![t] = None]
    /\ UNCHANGED <<lock_owner, s_op, s_log, s_entry, beyond_session>>

\* the end of `with self._lock:`, on return and on raise alike
ReleaseLock(t) ==
    /\ s_pc[t] = "release"
    /\ lock_owner' = 0
    /\ s_pc' = [s_pc EXCEPT ![t] = "done"]
    /\ UNCHANGED <<session, session_failed, failure_count, last_error, s_op,
                   s_attempt, s_exc, s_result, s_log, s_entry, beyond_session>>

\* the caller has the result; the thread is free for its next call
SessionDone(t) ==
    /\ s_pc[t] = "done"
    /\ s_pc' = [s_pc EXCEPT ![t] = "idle"]
    /\ s_op' = [s_op EXCEPT ![t] = None]
    /\ s_attempt' = [s_attempt EXCEPT ![t] = 0]
    /\ s_result' = [s_result EXCEPT ![t] = None]
    /\ s_log' = [s_log EXCEPT ![t] = <<>>]
    /\ s_entry' = [s_entry EXCEPT ![t] = None]
    /\ UNCHANGED <<lock_owner, session, session_failed, failure_count, last_error,
                   s_exc, beyond_session>>

SessionTools == {"list_issues"}

NextSession ==
    \/ \E t \in Threads, name \in SessionTools : CallTool(t, name)
    \/ \E t \in Threads : ListTools(t)
    \/ \E t \in Threads : AcquireLock(t)
    \/ \E t \in Threads : EnsureConnected(t)
    \/ \E t \in Threads : SubmitCallTool(t)
    \/ \E t \in Threads : SubmitListTools(t)
    \/ \E t \in Threads : HandleFailure(t)
    \/ \E t \in Threads : ReleaseLock(t)
    \/ \E t \in Threads : SessionDone(t)

SpecSession == InitSession /\ [][NextSession]_vars

SessionTypeOK ==
    /\ lock_owner \in {0} \cup Threads
    /\ session \in {"none", "uninitialized", "ready"}
    /\ failure_count \in 0..MaxFailures
    /\ \A t \in Threads :
          /\ s_pc[t] \in {"idle", "acquire", "connect", "call", "failed",
                           "release", "done"}
          /\ s_attempt[t] \in 0..(ATTEMPTS - 1)
          /\ Len(s_log[t]) <= ATTEMPTS

\* the attempt failed in a way that is not a semantic tool error: the
\* connection or the upstream call raised
FailedAttempt(a) == a.out \in ConnectErrors \cup CallErrors

\* the call of thread t has ended, by return or raise
CallEnded(t) == s_pc[t] \in {"release", "done"}

\* C19: a call_tool makes at most two attempts; it makes the second only
\* after the first failed, and always then; when both failed it raises
\* OfficialToolError official_unavailable, and when the second succeeded it
\* returns the normalized result of the second.
C19_AtMostOneRetry ==
    \A t \in Threads :
        s_op[t] # None /\ s_op[t].op = "call_tool" =>
            LET log == s_log[t] IN
            /\ Len(log) <= 2
            /\ Len(log) = 2 =>
                  (/\ FailedAttempt(log[1])
                   /\ s_pc[t] \in {"failed", "release", "done"}
                   /\ s_attempt[t] = 1)
            /\ (CallEnded(t) /\ Len(log) = 1) => ~FailedAttempt(log[1])
            /\ (CallEnded(t) /\ Len(log) = 2 /\ FailedAttempt(log[2])) =>
                  (/\ s_result[t].kind = "raise"
                   /\ s_result[t].code = "official_unavailable")
            /\ (CallEnded(t) /\ Len(log) = 2 /\ log[2].out \in ToolResults
                   /\ ~log[2].out.isError) =>
                  s_result[t] = NormalizeResult(log[2].out)

C19_Witness ==
    /\ s_pc[1] = "release"
    /\ s_op[1].op = "call_tool"
    /\ Len(s_log[1]) = 2
    /\ s_log[1][1].stage = "call"
    /\ s_log[1][2].out = ToolResult(FALSE, None, <<TextBlock("[\"r\"]")>>)
    /\ s_result[1] = Return(JList(<<JStr("r")>>))

\* an attempt whose upstream result reports isError
ErrorResult(a) == a.out \in ToolResults /\ a.out.isError

\* an attempt with an isError result is the last of its call; the call
\* raises official_tool_error with the message msg, and neither the failure
\* counter nor the session differ from what the attempt found
SemanticErrorEnds(t, i, msg) ==
    LET a == s_log[t][i] IN
    /\ i = Len(s_log[t])
    /\ CallEnded(t)
    /\ s_result[t] = Raise("official_tool_error", msg)
    /\ s_pc[t] = "release" =>
          (/\ failure_count = a.failures
           /\ session = a.session)

\* C20 as stated: an attempt whose result reports isError ends the call with
\* OfficialToolError(official_tool_error) carrying the result text; no
\* retry, no failure recorded, the session kept.
C20_AsStated ==
    \A t \in Threads : \A i \in 1..Len(s_log[t]) :
        ErrorResult(s_log[t][i]) =>
            SemanticErrorEnds(t, i, ExtractText(s_log[t][i].out))

\* C20: an attempt whose result reports isError ends the call with
\* OfficialToolError(official_tool_error) carrying the result text, or
\* "official MCP returned an error" when the result has no text; no retry,
\* no failure recorded, the session kept.
C20_SemanticErrorNotRetried ==
    \A t \in Threads : \A i \in 1..Len(s_log[t]) :
        ErrorResult(s_log[t][i]) =>
            LET text == ExtractText(s_log[t][i].out) IN
            SemanticErrorEnds(t, i, IF text = ""
                                    THEN "official MCP returned an error"
                                    ELSE text)

C20_Witness ==
    /\ s_pc[2] = "release"
    /\ Len(s_log[2]) = 1
    /\ s_log[2][1].out = ToolResult(TRUE, None, <<TextBlock("bad filter")>>)
    /\ s_result[2] = Raise("official_tool_error", "bad filter")
    /\ failure_count = 1
    /\ session = "ready"

\* thread t is inside `with self._lock:` of call_tool or list_tools
InsideCall(t) == s_pc[t] \in {"connect", "call", "failed", "release"}

\* C21: no two threads are inside call_tool or list_tools (connect, upstream
\* call, failure handling and disconnect included) at the same time, and the
\* thread that is inside holds the lock.
C21_UpstreamCallsExclusive ==
    /\ \A t, u \in Threads : (InsideCall(t) /\ InsideCall(u)) => t = u
    /\ \A t \in Threads : InsideCall(t) <=> lock_owner = t

C21_Witness ==
    /\ s_pc[1] = "failed"
    /\ s_attempt[1] = 1
    /\ s_op[1].op = "call_tool"
    /\ s_pc[2] = "acquire"
    /\ s_op[2].op = "list_tools"

\* the upstream list_tools requests thread t has issued in this call
ListRequests(t) ==
    Cardinality({i \in 1..Len(s_log[t]) : s_log[t][i].stage = "call"})

C28_RemoteErrorPropagated ==
    (/\ RemoteFirstTransportFailure
     /\ Len(trace) >= 2
     /\ trace[2].ev = "local"
     /\ trace[2].out.kind = "fallback"
     /\ trace[2].out.code # "degraded_local")
    => (/\ pc = "raised"
        /\ result = trace[1].out
        /\ Len(trace) = 2
        /\ UpstreamCount = 1)

C28_Witness ==
    /\ RemoteFirstTransportFailure
    /\ pc = "raised"
    /\ tool_name = list_issues
    /\ Len(trace) = 2
    /\ trace[2].out = Fallback("unsupported_filter")
    /\ result = Raise("official_unavailable", "timeout")

\* C29: the second attempt of a call runs on a session that was connected
\* and initialized after the first attempt failed, never on the session
\* that failed; the failure has been recorded by then.
C29_RetryOnFreshSession ==
    \A t \in Threads :
        (s_pc[t] = "call" /\ s_attempt[t] = 1) =>
            (/\ session = "ready"
             /\ ~session_failed
             /\ failure_count = s_entry[t].failures + 1)

\* ================================================= token-cache invalidation
\* what the token cache's steps leave alone
beyond_tokens == <<now, degraded, router_only, reader_only, session_vars,
                   reload_vars, snap_vars, lookup_vars>>

LINEAR_URL == "https://mcp.linear.app/mcp"

NOTION_URL == "https://mcp.notion.com/mcp"

Urls == {LINEAR_URL, NOTION_URL}

\* hashlib.md5(url.encode()).hexdigest() on the URLs of the model
UrlHash ==
    [u \in Urls |->
        IF u = LINEAR_URL
        THEN "fcc436b0d1e0a1ed9a2b15bbd638eb13"
        ELSE "cb42d1a06ae8db4e5585a26f2e5ca947"]

TOKEN_SUFFIXES == {"_tokens.json", "_client_info.json", "_code_verifier.txt"}

\* the directories under ~/.mcp-auth, by name
remote_36 ==
    <<"m","c","p","-","r","e","m","o","t","e","-","0",".","1",".","3","6">>

remote_37 ==
    <<"m","c","p","-","r","e","m","o","t","e","-","0",".","1",".","3","7">>

other_dir == <<"o","t","h","e","r","-","d","i","r">>

AuthDirs == {remote_36, remote_37, other_dir}

File(dir, name) == [dir |-> dir, name |-> name]

\* the files that may lie under ~/.mcp-auth before a clearing
CandidateFiles ==
    {File(remote_37, UrlHash[LINEAR_URL] \o x) : x \in TOKEN_SUFFIXES}
      \cup { File(remote_37, UrlHash[NOTION_URL] \o "_tokens.json"),
             File(remote_37, "other_hash_tokens.json"),
             File(remote_37, UrlHash[LINEAR_URL] \o "_lock.json"),
             File(remote_36, UrlHash[LINEAR_URL] \o "_tokens.json"),
             File(remote_36, UrlHash[NOTION_URL] \o "_client_info.json"),
             File(other_dir, UrlHash[LINEAR_URL] \o "_tokens.json") }

\* mutant: every directory under ~/.mcp-auth is searched
IsTokenCacheDir_Any(dir) == TRUE

\* the glob ~/.mcp-auth/mcp-remote-*
IsTokenCacheDir(dir) ==
    StartsWith(dir, <<"m","c","p","-","r","e","m","o","t","e","-">>)

\* the files a clearing for url looks for
TokenFilesOf(url, files) ==
    {f \in files :
        /\ IsTokenCacheDir(f.dir)
        /\ \E x \in TOKEN_SUFFIXES : f.name = UrlHash[url] \o x}

InitTokens ==
    /\ now = 1
    /\ degraded = FALSE
    /\ coherence_window_seconds = MaxWindow
    /\ RouterStart
    /\ ReaderStart
    /\ SessionStart
    /\ ReloadStart
    /\ SnapshotStart
    /\ LookupStart
    /\ token_files \in SUBSET CandidateFiles
    /\ reauth_result = None

\* clear_token_cache_for_url(url): every file found is unlinked; an unlink
\* that fails is passed over and not counted
ClearTokenCacheForUrl(url) ==
    \E kept \in SUBSET TokenFilesOf(url, token_files) :
        LET removed == TokenFilesOf(url, token_files) \ kept IN
        /\ token_files' = token_files \ removed
        /\ reauth_result' =
              [url |-> url, before |-> token_files, unlink_failed |-> kept,
               value |-> [status |-> "reauth_triggered",
                          urlHash |-> UrlHash[url],
                          deletedFiles |-> Cardinality(removed),
                          searchedDirs |-> {d \in AuthDirs : IsTokenCacheDir(d)}]]
        /\ UNCHANGED beyond_tokens

\* mcp-remote writes token files again after the next OAuth flow
TokensWritten ==
    /\ reauth_result # None
    /\ \E f \in CandidateFiles \ token_files :
          token_files' = token_files \cup {f}
    /\ reauth_result' = None
    /\ UNCHANGED beyond_tokens

NextTokens ==
    \/ \E url \in Urls : ClearTokenCacheForUrl(url)
    \/ TokensWritten

SpecTokens == InitTokens /\ [][NextTokens]_vars

\* the three token files of url in the two mcp-remote directories
NamedTokenFiles(url) ==
    {File(d, UrlHash[url] \o x) : d \in {remote_36, remote_37},
                                   x \in {"_tokens.json", "_client_info.json",
                                           "_code_verifier.txt"}}

\* C23: a clearing for URL U removes the files named md5(U) plus one of the
\* three suffixes in the mcp-remote-* directories, all of them unless an
\* unlink failed, and no other file; deletedFiles is the number of files
\* removed.
C23_ReauthRemovesExactlyTokenFiles ==
    reauth_result # None =>
        LET before == reauth_result.before
            removed == before \ token_files
            named == before \cap NamedTokenFiles(reauth_result.url)
        IN /\ token_files \subseteq before
           /\ removed \subseteq named
           /\ reauth_result.unlink_failed = {} => removed = named
           /\ reauth_result.value.deletedFiles = Cardinality(removed)
           /\ reauth_result.value.urlHash = UrlHash[reauth_result.url]

C23_Witness ==
    /\ reauth_result # None
    /\ reauth_result.url = LINEAR_URL
    /\ reauth_result.before = CandidateFiles
    /\ reauth_result.value.deletedFiles = 4
    /\ Cardinality(token_files) = 5

\* ============================================================ cache reload
\* what the reload's steps leave alone
beyond_reload == <<last_tool_call_at, refresh_requested, r_event, router_only,
                   session_vars, token_vars, snap_vars, lookup_vars>>

REQUIRED_STORE_KEYS == {"issues", "teams", "users", "workflow_states", "projects"}

\* what a reload finds on disk: which of issues, teams and users have
\* records, which store kinds detect_stores found, which stores failed to read
LoadInput(present, detected, errored) ==
    [present |-> present, detected |-> detected, errored |-> errored]

LoadInputs ==
    LET all == {"issues", "teams", "users"}
        no_projects == REQUIRED_STORE_KEYS \ {"projects"}
    IN { LoadInput(all, REQUIRED_STORE_KEYS, {}),
         LoadInput(all, REQUIRED_STORE_KEYS, {"issue_content"}),
         LoadInput(all, REQUIRED_STORE_KEYS, {"comments"}),
         LoadInput(all, REQUIRED_STORE_KEYS, {"comments", "issue_content"}),
         LoadInput(all \ {"issues"}, REQUIRED_STORE_KEYS, {"comments"}),
         LoadInput(all \ {"teams"}, REQUIRED_STORE_KEYS, {"issue_content"}),
         LoadInput(all, no_projects, {}),
         LoadInput(all \ {"users"}, no_projects, {"comments"}) }

\* the exceptions of _get_wrapper, _find_all_linear_dbs and of a record
\* without "id" in _load_from_db
LoadFailures ==
    { [type |-> "FileNotFoundError", text |-> "Linear database not found"],
      [type |-> "ValueError",
       text |-> "Could not find Linear database in IndexedDB"],
      [type |-> "KeyError", text |-> "'id'"] }

\* the allow-sets _apply_account_scope can derive from a snapshot: account
\* ids come from the configuration or from users with a configured e-mail,
\* organization ids only from users
AllowSets(c) ==
    { a \in [accounts : {{}, {"acct-1"}}, orgs : {{}, {"org-1"}}] :
        /\ a.accounts = {} => a.orgs = {}
        /\ a.orgs # {} => c.users }

\* mutant: empty allow-sets are let through
ScopeError_Never(allow) == None

\* the two `raise ValueError` of _apply_account_scope
ScopeError(allow) ==
    IF allow.accounts = {}
    THEN [type |-> "ValueError",
          text |-> "account scope configured but no matching userAccountId found"]
    ELSE IF allow.orgs = {}
    THEN [type |-> "ValueError",
          text |-> "account scope configured but no matching organizationId found"]
    ELSE None

\* _load_from_db: read errors of the issue_content store go to soft_errors,
\* all others to load_errors
HardErrors(errored) == errored \ {"issue_content"}

\* the snapshot after the databases were read
Loaded(inp, t) ==
    [stage |-> "loaded", loaded_at |-> t, teams |-> "teams" \in inp.present,
     issues |-> "issues" \in inp.present, users |-> "users" \in inp.present]

\* what _apply_account_scope may leave of a snapshot whose allow-sets are not
\* empty: users of an allowed organization exist; teams may all go, and
\* with them all issues
ScopeResults(c) ==
    { [c EXCEPT !.stage = "scoped"],
      [c EXCEPT !.stage = "scoped", !.issues = FALSE],
      [c EXCEPT !.stage = "scoped", !.issues = FALSE, !.teams = FALSE] }

\* the project state fix-up of _reload_cache
FixedUp(c) == [c EXCEPT !.stage = "fixed"]

\* mutant: the snapshot is installed without its indexes
Indexed_Skipped(c) == c

\* _build_issue_indexes
Indexed(c) == [c EXCEPT !.stage = "indexed"]

\* mutant: read errors are looked at before anything else
HealthVerdict_ErrorsFirst(detected, c, load_errors) ==
    IF load_errors # {}
    THEN [kind |-> "store read errors", count |-> Cardinality(load_errors)]
    ELSE IF REQUIRED_STORE_KEYS \ detected # {}
    THEN [kind |-> "missing required stores",
          stores |-> REQUIRED_STORE_KEYS \ detected]
    ELSE IF ~c.issues \/ ~c.teams \/ ~c.users
    THEN [kind |-> "required entities are missing from cache"]
    ELSE None

\* the if/elif chain that ends _reload_cache: the reason the reader is
\* degraded for, or None for healthy
HealthVerdict(detected, c, load_errors) ==
    IF REQUIRED_STORE_KEYS \ detected # {}
    THEN [kind |-> "missing required stores",
          stores |-> REQUIRED_STORE_KEYS \ detected]
    ELSE IF ~c.issues \/ ~c.teams \/ ~c.users
    THEN [kind |-> "required entities are missing from cache"]
    ELSE IF load_errors # {}
    THEN [kind |-> "store read errors", count |-> Cardinality(load_errors)]
    ELSE None

\* _set_degraded(reason) and _set_healthy()
SetHealth(reason) ==
    /\ degraded' = (reason # None)
    /\ health' = IF reason # None
                 THEN [reason |-> reason,
                       failure_count |-> health.failure_count + 1]
                 ELSE [reason |-> None, failure_count |-> 0]

InitReload ==
    /\ now = 1
    /\ degraded = FALSE
    /\ coherence_window_seconds = MaxWindow
    /\ RouterStart
    /\ ReaderStart
    /\ SessionStart
    /\ TokenCacheStart
    /\ SnapshotStart
    /\ LookupStart
    /\ reload_lock = 0
    /\ cache = NewCache
    /\ health = [reason |-> None, failure_count |-> 0]
    /\ scope_configured \in BOOLEAN
    /\ l_pc = [t \in Threads |-> "idle"]
    /\ l_frame = [t \in Threads |-> NoFrame]

\* a thread moves to pc with frame fr
ReloadGoto(t, to, fr) ==
    /\ l_pc' = [l_pc EXCEPT ![t] = to]
    /\ l_frame' = [l_frame EXCEPT ![t] = fr]

\* the frame of a call that has not reached the lock yet
EntryFrame(via) ==
    [via |-> via, cache |-> None, allow |-> None, detected |-> {},
     load_errors |-> {}, soft_errors |-> {}, exc |-> None]

\* time passes, long enough for a snapshot to expire
ReloadTick ==
    /\ now + CACHE_TTL_SECONDS + 1 <= MaxReaderTime
    /\ now' = now + CACHE_TTL_SECONDS + 1
    /\ UNCHANGED <<degraded, reader_only, beyond_reader>>

\* mark_stale() from the router or a tool
ReloadMarkStale ==
    /\ ~force_next_refresh
    /\ force_next_refresh' = TRUE
    /\ UNCHANGED <<now, degraded, loaded_at, cache_has_teams, reload_vars,
                   beyond_reload>>

\* refresh_cache(force=True): straight to _reload_cache
RefreshCacheCall(t) ==
    /\ l_pc[t] = "idle"
    /\ ReloadGoto(t, "wait", EntryFrame("refresh_cache"))
    /\ UNCHANGED <<now, degraded, force_next_refresh, loaded_at, cache_has_teams,
                   reload_lock, cache, health, scope_configured,
                   beyond_reload>>

\* _ensure_cache: the test, and the clearing of the forcing flag
EnsureCacheCall(t) ==
    /\ l_pc[t] = "idle"
    /\ IF NeedsReload(force_next_refresh, IsExpired(now, cache.loaded_at),
                      cache.teams)
       THEN /\ force_next_refresh' = FALSE
            /\ ReloadGoto(t, "wait", EntryFrame("_ensure_cache"))
       ELSE /\ ReloadGoto(t, "return", EntryFrame("_ensure_cache"))
            /\ UNCHANGED force_next_refresh
    /\ UNCHANGED <<now, degraded, loaded_at, cache_has_teams, reload_lock, cache,
                   health, scope_configured, beyond_reload>>

\* `with self._reload_lock:`
ReloadAcquire(t) ==
    /\ l_pc[t] = "wait"
    /\ LockFree(reload_lock)
    /\ health.failure_count < MaxLocalFailures
    /\ reload_lock' = t
    /\ ReloadGoto(t, "load", l_frame[t])
    /\ UNCHANGED <<now, degraded, force_next_refresh, loaded_at, cache_has_teams,
                   cache, health, scope_configured, beyond_reload>>

\* _get_wrapper, _find_all_linear_dbs, CachedData(loaded_at=time.time()) and
\* the loop over the databases
LoadDatabases(t) ==
    /\ l_pc[t] = "load"
    /\ \/ \E e \in LoadFailures :
             ReloadGoto(t, "raise", [l_frame[t] EXCEPT !.exc = e])
       \/ \E inp \in LoadInputs :
             ReloadGoto(t, "scope",
                        [l_frame[t] EXCEPT
                            !.cache = Loaded(inp, now),
                            !.detected = inp.detected,
                            !.load_errors = HardErrors(inp.errored),
                            !.soft_errors = inp.errored \ HardErrors(inp.errored)])
    /\ UNCHANGED <<now, degraded, force_next_refresh, loaded_at, cache_has_teams,
                   reload_lock, cache, health, scope_configured,
                   beyond_reload>>

\* self._apply_account_scope(cache)
ApplyAccountScope(t) ==
    /\ l_pc[t] = "scope"
    /\ IF ~scope_configured
       THEN ReloadGoto(t, "fixup",
                       [l_frame[t] EXCEPT !.cache.stage = "scoped"])
       ELSE \E allow \in AllowSets(l_frame[t].cache) :
               IF ScopeError(allow) # None
               THEN ReloadGoto(t, "raise",
                               [l_frame[t] EXCEPT !.allow = allow,
                                                  !.exc = ScopeError(allow)])
               ELSE \E c \in ScopeResults(l_frame[t].cache) :
                       ReloadGoto(t, "fixup",
                                  [l_frame[t] EXCEPT !.allow = allow, !.cache = c])
    /\ UNCHANGED <<now, degraded, force_next_refresh, loaded_at, cache_has_teams,
                   reload_lock, cache, health, scope_configured,
                   beyond_reload>>

\* the loop that sets project["state"]
FixProjectStates(t) ==
    /\ l_pc[t] = "fixup"
    /\ ReloadGoto(t, "index",
                  [l_frame[t] EXCEPT !.cache = FixedUp(l_frame[t].cache)])
    /\ UNCHANGED <<now, degraded, force_next_refresh, loaded_at, cache_has_teams,
                   reload_lock, cache, health, scope_configured,
                   beyond_reload>>

\* self._build_issue_indexes(cache)
BuildIssueIndexes(t) ==
    /\ l_pc[t] = "index"
    /\ ReloadGoto(t, "install",
                  [l_frame[t] EXCEPT !.cache = Indexed(l_frame[t].cache)])
    /\ UNCHANGED <<now, degraded, force_next_refresh, loaded_at, cache_has_teams,
                   reload_lock, cache, health, scope_configured,
                   beyond_reload>>

\* `self._cache = cache`; loaded_at and cache_has_teams are the fields of
\* self._cache that the freshness steps read
InstallSnapshot(t) ==
    /\ l_pc[t] = "install"
    /\ cache' = l_frame[t].cache
    /\ loaded_at' = l_frame[t].cache.loaded_at
    /\ cache_has_teams' = l_frame[t].cache.teams
    /\ ReloadGoto(t, "health", l_frame[t])
    /\ UNCHANGED <<now, degraded, force_next_refresh, reload_lock, health,
                   scope_configured, beyond_reload>>

\* the health update that ends the try block
UpdateHealth(t) ==
    /\ l_pc[t] = "health"
    /\ SetHealth(HealthVerdict(l_frame[t].detected, l_frame[t].cache,
                               l_frame[t].load_errors))
    /\ ReloadGoto(t, "unlock", l_frame[t])
    /\ UNCHANGED <<now, force_next_refresh, loaded_at, cache_has_teams,
                   reload_lock, cache, scope_configured, beyond_reload>>

\* mutant: a reload that fails throws the installed snapshot away
ReloadRaise_DropsSnapshot(t) ==
    /\ l_pc[t] = "raise"
    /\ SetHealth([kind |-> l_frame[t].exc.text])
    /\ cache' = NewCache
    /\ loaded_at' = NewCache.loaded_at
    /\ cache_has_teams' = NewCache.teams
    /\ ReloadGoto(t, "unlock", l_frame[t])
    /\ UNCHANGED <<now, force_next_refresh, reload_lock, scope_configured,
                   beyond_reload>>

\* `except Exception as exc: self._set_degraded(str(exc)); raise`
ReloadRaise(t) ==
    /\ l_pc[t] = "raise"
    /\ SetHealth([kind |-> l_frame[t].exc.text])
    /\ ReloadGoto(t, "unlock", l_frame[t])
    /\ UNCHANGED <<now, force_next_refresh, loaded_at, cache_has_teams,
                   reload_lock, cache, scope_configured, beyond_reload>>

\* the end of the with block: the exception goes on to the caller,
\* refresh_cache returns, _ensure_cache goes on to its return statement
ReloadRelease(t) ==
    /\ l_pc[t] = "unlock"
    /\ reload_lock' = 0
    /\ IF l_frame[t].exc # None \/ l_frame[t].via = "refresh_cache"
       THEN ReloadGoto(t, "idle", NoFrame)
       ELSE ReloadGoto(t, "return", l_frame[t])
    /\ UNCHANGED <<now, degraded, force_next_refresh, loaded_at, cache_has_teams,
                   cache, health, scope_configured, beyond_reload>>

\* `return self._cache`: the caller reads the maps of the snapshot it got
EnsureCacheReturn(t) ==
    /\ l_pc[t] = "return"
    /\ ReloadGoto(t, "idle", NoFrame)
    /\ UNCHANGED <<now, degraded, force_next_refresh, loaded_at, cache_has_teams,
                   reload_lock, cache, health, scope_configured, beyond_reload>>

NextReload ==
    \/ ReloadTick
    \/ ReloadMarkStale
    \/ \E t \in Threads :
          \/ RefreshCacheCall(t)
          \/ EnsureCacheCall(t)
          \/ ReloadAcquire(t)
          \/ LoadDatabases(t)
          \/ ApplyAccountScope(t)
          \/ FixProjectStates(t)
          \/ BuildIssueIndexes(t)
          \/ InstallSnapshot(t)
          \/ UpdateHealth(t)
          \/ ReloadRaise(t)
          \/ ReloadRelease(t)
          \/ EnsureCacheReturn(t)

SpecReload == InitReload /\ [][NextReload]_vars

\* C24: the installed snapshot is always a complete one (the empty one of
\* the constructor, or one that was loaded, scoped, fixed up and indexed); a
\* thread about to return self._cache from _ensure_cache finds an indexed
\* snapshot there, also while another thread is reloading; and the snapshot a
\* reload is still working on is not the installed one.
C24_ReadersSeeCompleteSnapshots ==
    /\ cache.stage \in {"new", "indexed"}
    /\ \A t \in Threads :
          /\ l_pc[t] = "return" => cache.stage = "indexed"
          /\ l_pc[t] \in {"scope", "fixup", "index"} => l_frame[t].cache # cache

C24_Witness ==
    \E t, u \in Threads :
        /\ l_pc[t] = "return"
        /\ l_pc[u] \in {"scope", "fixup", "index"}
        /\ cache.stage = "indexed"

\* C25: with account scoping configured, once _apply_account_scope has
\* derived an empty set of allowed account ids or of allowed organization
\* ids, the reload is on its way out with the ValueError, the unfiltered
\* snapshot is not installed, and when the reload ends the reader is degraded
\* with the error text as reason.
C25_EmptyAllowSetRejectsLoad ==
    \A t \in Threads :
        (/\ l_frame[t].via # "none"
         /\ l_frame[t].allow # None
         /\ (l_frame[t].allow.accounts = {} \/ l_frame[t].allow.orgs = {})) =>
            /\ l_pc[t] \in {"raise", "unlock"}
            /\ l_frame[t].exc # None
            /\ l_frame[t].exc.type = "ValueError"
            /\ l_frame[t].cache.stage = "loaded"
            /\ cache # l_frame[t].cache
            /\ l_pc[t] = "unlock" =>
                  (degraded /\ health.reason = [kind |-> l_frame[t].exc.text])

C25_Witness ==
    \E t \in Threads :
        /\ l_pc[t] = "unlock"
        /\ l_frame[t].allow = [accounts |-> {"acct-1"}, orgs |-> {}]
        /\ cache.stage = "indexed"
        /\ degraded

\* C30: when a reload that installed a snapshot has set the health, the
\* reader is degraded for undetected required stores if there are any; else
\* for missing entities if issues, teams or users is empty; else for read
\* errors if a store other than issue_content failed; else it is healthy.
\* Read errors of issue_content are never among the errors that count.
C30_HealthPriority ==
    \A t \in Threads :
        (l_pc[t] = "unlock" /\ l_frame[t].exc = None) =>
            LET f == l_frame[t]
                missing == {"issues", "teams", "users", "workflow_states",
                            "projects"} \ f.detected
                empty == ~cache.issues \/ ~cache.teams \/ ~cache.users
            IN /\ cache = f.cache
               /\ "issue_content" \notin f.load_errors
               /\ IF missing # {}
                  THEN degraded /\ health.reason.kind = "missing required stores"
                  ELSE IF empty
                  THEN /\ degraded
                       /\ health.reason.kind =
                             "required entities are missing from cache"
                  ELSE IF f.load_errors # {}
                  THEN degraded /\ health.reason.kind = "store read errors"
                  ELSE ~degraded /\ health.reason = None

C30_Witness ==
    \E t \in Threads :
        /\ l_pc[t] = "unlock"
        /\ l_frame[t].exc = None
        /\ l_frame[t].detected # REQUIRED_STORE_KEYS
        /\ ~cache.users
        /\ l_frame[t].load_errors # {}
        /\ health.reason.kind = "missing required stores"

\* a reload that met only issue_content read errors and ended healthy
C30_SoftErrorsOnly ==
    \E t \in Threads :
        /\ l_pc[t] = "unlock"
        /\ l_frame[t].soft_errors = {"issue_content"}
        /\ ~degraded

\* ================================================== the records of a reload
\* what the record-level steps leave alone
beyond_snapshot == <<now, degraded, router_only, reader_only, session_vars,
                     token_vars, reload_vars, lookup_vars>>

\* the records the databases of the model may hold
User(id, email, account, org) ==
    [id |-> id, email |-> email, userAccountId |-> account, organizationId |-> org]

Team(id, key, org) == [id |-> id, key |-> key, organizationId |-> org]

RawIssue(id, team, number) == [id |-> id, teamId |-> team, number |-> number]

Ref(id, field, to) == [id |-> id, field |-> field, to |-> to]

Project(id, teams, lead, status) ==
    [id |-> id, teamIds |-> teams, leadId |-> lead, statusId |-> status,
     state |-> None]

\* the stores of a database other than users, teams and issues, all present
\* or all absent
Dependents ==
    [states |-> {Ref("s1", "teamId", "t1"), Ref("s2", "teamId", "t2")},
     cycles |-> {Ref("c1", "teamId", "t1"), Ref("c2", "teamId", "t2")},
     comments |-> {Ref("m1", "issueId", "i1"), Ref("m2", "issueId", "i2")},
     issue_content |-> {"i1", "i2"},
     projects |-> {Project("p1", {"t1"}, "", "ps1"),
                   Project("p2", {"t2"}, "u1", "ps2"),
                   Project("p3", {}, "u1", "")},
     milestones |-> {Ref("ms1", "projectId", "p1"), Ref("ms2", "projectId", "p2")},
     project_updates |-> {Ref("pu1", "projectId", "p1"),
                          Ref("pu2", "projectId", "p2")},
     project_statuses |-> {[id |-> "ps1", name |-> "Started"],
                           [id |-> "ps2", name |-> "Planned"],
                           [id |-> "ps3", name |-> "Paused"]}]

NoDependents ==
    [states |-> {}, cycles |-> {}, comments |-> {}, issue_content |-> {},
     projects |-> {}, milestones |-> {}, project_updates |-> {},
     project_statuses |-> {}]

Database ==
    [users : { {}, {User("u2", "you@x.io", "a2", "o2")},
               {User("u1", "me@x.io", "a1", "o1"),
                User("u2", "you@x.io", "a2", "o2")},
               {User("u3", "me@x.io", "a1", "")} },
     teams : { {}, {Team("t2", "OPS", "o2")}, {Team("t1", "PLAT", "o1")},
               {Team("t1", "ENG", "o1"), Team("t2", "OPS", "o2")} },
     issues : { {}, {RawIssue("i1", "t1", 5)},
                {RawIssue("i1", "t1", 5), RawIssue("i2", "t2", 7),
                 RawIssue("i3", "t9", 9)} },
     rest : {Dependents, NoDependents}]

\* one database, or two in either order
DatabaseLists ==
    {<<a>> : a \in Database} \cup {<<a, b>> : a, b \in Database}

ScopeConfigs ==
    { [emails |-> {}, account_ids |-> {}],
      [emails |-> {"me@x.io"}, account_ids |-> {}],
      [emails |-> {}, account_ids |-> {"a1"}],
      [emails |-> {}, account_ids |-> {"a9"}] }

\* dict semantics on sets of records with an "id"
Ids(m) == {r.id : r \in m}

\* `cache.x[val["id"]] = {...}` for every record of a store
Overwrite(m, store) == {r \in m : r.id \notin Ids(store)} \cup store

\* `if val.get("id") not in cache.x: cache.x[val["id"]] = {...}`
FirstWins(m, store) == m \cup {r \in store : r.id \notin Ids(m)}

\* `team = cache.teams.get(val.get("teamId"), {})`,
\* `team_key = team.get("key", "???")`,
\* `identifier = f"{team_key}-{val.get('number')}"`
IssueIdentifier(teams, issue) ==
    (IF issue.teamId \in Ids(teams)
     THEN (CHOOSE t \in teams : t.id = issue.teamId).key
     ELSE "???") \o "-" \o ToString(issue.number)

\* a set of comments as the list of (issueId, id) entries that appending
\* each of them once to comments_by_issue gives
RECURSIVE Entries(_)
Entries(comments) ==
    IF comments = {} THEN <<>>
    ELSE LET m == CHOOSE x \in comments : TRUE
         IN <<[issueId |-> m.to, id |-> m.id]>> \o Entries(comments \ {m})

\* _load_from_db: the stores of one database go into the cache, teams
\* before issues, each issue with the identifier its team gives it then
LoadFromDb(c, db) ==
    LET teams == Overwrite(c.teams, db.teams) IN
    [c EXCEPT
        !.teams = teams,
        !.users = FirstWins(c.users, db.users),
        !.states = FirstWins(c.states, db.rest.states),
        !.issues = Overwrite(c.issues,
                             {[id |-> r.id, teamId |-> r.teamId,
                               number |-> r.number,
                               identifier |-> IssueIdentifier(teams, r)] :
                                  r \in db.issues}),
        !.comments = Overwrite(c.comments, db.rest.comments),
        !.comments_by_issue = c.comments_by_issue \o Entries(db.rest.comments),
        !.projects = Overwrite(c.projects, db.rest.projects),
        !.issue_content = c.issue_content \cup db.rest.issue_content,
        !.cycles = Overwrite(c.cycles, db.rest.cycles),
        !.milestones = Overwrite(c.milestones, db.rest.milestones),
        !.project_statuses = FirstWins(c.project_statuses, db.rest.project_statuses),
        !.project_updates = Overwrite(c.project_updates, db.rest.project_updates)]

\* _is_account_scope_enabled
ScopeEnabled(cfg) == cfg.emails # {} \/ cfg.account_ids # {}

\* allowed_account_ids of _apply_account_scope
AllowedAccountIds(cfg, users) ==
    cfg.account_ids \cup
        {u.userAccountId : u \in {x \in users : /\ x.email \in cfg.emails
                                                 /\ x.userAccountId # ""}}

\* allowed_org_ids of _apply_account_scope
AllowedOrgIds(cfg, users) ==
    {u.organizationId :
        u \in {x \in users : /\ x.userAccountId \in AllowedAccountIds(cfg, users)
                              /\ x.organizationId # ""}}

\* mutant: a filter that keeps everything
Retained_All(records, ids) == records

\* `{k: v for k, v in cache.x.items() if v.get(field) in ids}` on records
\* that refer to one other record
Retained(records, ids) == {r \in records : r.to \in ids}

\* _project_allowed
ProjectAllowed(project, team_ids, user_ids) ==
    IF project.teamIds # {}
    THEN project.teamIds \cap team_ids # {}
    ELSE project.leadId # "" /\ project.leadId \in user_ids

\* the filters of _apply_account_scope, in the code's order
Scoped(cfg, c) ==
    LET orgs == AllowedOrgIds(cfg, c.users)
        users == {u \in c.users : u.organizationId \in orgs}
        teams == {t \in c.teams : t.organizationId \in orgs}
        issues == {i \in c.issues : i.teamId \in Ids(teams)}
        comments == Retained(c.comments, Ids(issues))
        projects == {p \in c.projects : ProjectAllowed(p, Ids(teams), Ids(users))}
    IN [c EXCEPT
           !.users = users,
           !.teams = teams,
           !.states = Retained(c.states, Ids(teams)),
           !.issues = issues,
           !.issue_content = c.issue_content \cap Ids(issues),
           !.comments = comments,
           !.comments_by_issue = Entries(comments),
           !.projects = projects,
           !.cycles = Retained(c.cycles, Ids(teams)),
           !.milestones = Retained(c.milestones, Ids(projects)),
           !.project_updates = Retained(c.project_updates, Ids(projects)),
           !.project_statuses =
               {x \in c.project_statuses :
                   x.id \in {p.statusId : p \in projects} \ {""}}]

\* the loop of _reload_cache that gives each project the name of its status
WithProjectStates(c) ==
    [c EXCEPT !.projects =
        {IF p.statusId # "" /\ p.statusId \in Ids(c.project_statuses)
         THEN [p EXCEPT !.state =
                  (CHOOSE x \in c.project_statuses : x.id = p.statusId).name]
         ELSE p : p \in c.projects}]

InitSnapshot ==
    /\ now = 1
    /\ degraded = FALSE
    /\ coherence_window_seconds = MaxWindow
    /\ RouterStart
    /\ ReaderStart
    /\ SessionStart
    /\ TokenCacheStart
    /\ ReloadStart
    /\ LookupStart
    /\ d_databases \in DatabaseLists
    /\ d_scope \in ScopeConfigs
    /\ d_pc = "load"
    /\ d_cache = EmptySnapshot
    /\ d_installed = EmptySnapshot

\* one pass of `for db in databases:`
LoadNextDatabase ==
    /\ d_pc = "load"
    /\ d_databases # <<>>
    /\ d_cache' = LoadFromDb(d_cache, Head(d_databases))
    /\ d_databases' = Tail(d_databases)
    /\ UNCHANGED <<d_scope, d_pc, d_installed, beyond_snapshot>>

\* self._apply_account_scope(cache), after the last database
ApplyScopeToRecords ==
    /\ d_pc = "load"
    /\ d_databases = <<>>
    /\ IF ~ScopeEnabled(d_scope)
       THEN d_pc' = "install" /\ UNCHANGED d_cache
       ELSE IF \/ AllowedAccountIds(d_scope, d_cache.users) = {}
               \/ AllowedOrgIds(d_scope, d_cache.users) = {}
       THEN d_pc' = "raised" /\ UNCHANGED d_cache
       ELSE d_pc' = "install" /\ d_cache' = Scoped(d_scope, d_cache)
    /\ UNCHANGED <<d_databases, d_scope, d_installed, beyond_snapshot>>

\* the project state loop and `self._cache = cache` (the count indexes of
\* _build_issue_indexes are not among the maps of the model)
InstallRecords ==
    /\ d_pc = "install"
    /\ d_installed' = WithProjectStates(d_cache)
    /\ d_cache' = WithProjectStates(d_cache)
    /\ d_pc' = "installed"
    /\ UNCHANGED <<d_databases, d_scope, beyond_snapshot>>

NextSnapshot ==
    \/ LoadNextDatabase
    \/ ApplyScopeToRecords
    \/ InstallRecords

SpecSnapshot == InitSnapshot /\ [][NextSnapshot]_vars

\* C26 as stated: in the installed snapshot every issue's identifier is its
\* team's key, a hyphen and its number if the snapshot has a team with the
\* issue's teamId, and ???-number if it has none.
C26_IdentifierMatchesSnapshotTeam ==
    d_pc = "installed" =>
        \A i \in d_installed.issues :
            IF \E t \in d_installed.teams : t.id = i.teamId
            THEN \E t \in d_installed.teams :
                    /\ t.id = i.teamId
                    /\ i.identifier = t.key \o "-" \o ToString(i.number)
            ELSE i.identifier = "???-" \o ToString(i.number)

\* C27: in every snapshot installed with account scoping configured, users
\* and teams belong to an allowed organization; states, issues and cycles to
\* a retained team; comments and issue contents to a retained issue;
\* milestones and project updates to a retained project; and every project
\* status is the status of a retained project.
C27_ScopedSnapshotIsClosed ==
    (d_pc = "installed" /\ ScopeEnabled(d_scope)) =>
        LET c == d_installed
            accounts == d_scope.account_ids \cup
                          {u.userAccountId : u \in {x \in c.users :
                                                      x.email \in d_scope.emails}}
            orgs == {u.organizationId :
                        u \in {x \in c.users : x.userAccountId \in accounts}}
            ids(m) == {r.id : r \in m}
        IN /\ \A u \in c.users : u.organizationId \in orgs /\ u.organizationId # ""
           /\ \A t \in c.teams : t.organizationId \in orgs
           /\ \A r \in c.states \cup c.cycles : r.to \in ids(c.teams)
           /\ \A i \in c.issues : i.teamId \in ids(c.teams)
           /\ \A m \in c.comments : m.to \in ids(c.issues)
           /\ \A j \in 1..Len(c.comments_by_issue) :
                 c.comments_by_issue[j].issueId \in ids(c.issues)
           /\ c.issue_content \subseteq ids(c.issues)
           /\ \A r \in c.milestones \cup c.project_updates : r.to \in ids(c.projects)
           /\ \A x \in c.project_statuses :
                 \E p \in c.projects : p.statusId = x.id

C27_Witness ==
    /\ d_pc = "installed"
    /\ ScopeEnabled(d_scope)
    /\ d_databases = <<>>
    /\ Cardinality(d_installed.teams) = 1
    /\ Cardinality(d_installed.issues) = 1
    /\ Cardinality(d_installed.comments) = 1
    /\ Cardinality(d_installed.milestones) = 1
    /\ Cardinality(d_installed.projects) = 2
    /\ Cardinality(d_installed.project_statuses) = 1
    /\ Cardinality(d_installed.users) = 1

\* a thread inside the with block of _reload_cache
InReloadBody(t) ==
    l_pc[t] \in {"load", "scope", "fixup", "index", "install", "health", "raise",
                 "unlock"}

\* C31: whatever made the threads reload (an expired or empty snapshot, the
\* stale mark, refresh_cache), at most one thread is inside the body of
\* _reload_cache at any time, that thread is the holder of the reload lock,
\* and a thread about to assign self._cache holds the lock.
C31_ReloadsAreSingleFlight ==
    /\ \A t, u \in Threads : (InReloadBody(t) /\ InReloadBody(u)) => t = u
    /\ \A t \in Threads : InReloadBody(t) <=> reload_lock = t
    /\ \A t \in Threads : l_pc[t] = "install" => reload_lock = t

C31_Witness ==
    \E t, u \in Threads :
        /\ l_pc[t] = "install"
        /\ l_pc[u] = "wait"
        /\ l_frame[t].via = "_ensure_cache"
        /\ l_frame[u].via = "refresh_cache"

\* C32: a cache access whose snapshot is older than CACHE_TTL_SECONDS
\* reloads; one whose snapshot has a team, is not marked stale and is at most
\* CACHE_TTL_SECONDS old does not: with teams and no stale mark, the access
\* reloads exactly when now - loaded_at > CACHE_TTL_SECONDS.
C32_ExpiryIsStrict ==
    r_event.op = "access" =>
        /\ r_event.age > CACHE_TTL_SECONDS => r_event.reloaded
        /\ (r_event.had_teams /\ ~r_event.flag_before) =>
              (r_event.reloaded <=> r_event.age > CACHE_TTL_SECONDS)

C32_Witness ==
    /\ r_event.op = "access"
    /\ r_event.age = CACHE_TTL_SECONDS
    /\ r_event.had_teams
    /\ ~r_event.flag_before
    /\ ~r_event.reloaded

\* an access that reloads for age alone, one unit past the TTL
C32_JustExpired ==
    /\ r_event.op = "access"
    /\ r_event.age = CACHE_TTL_SECONDS + 1
    /\ r_event.had_teams
    /\ ~r_event.flag_before
    /\ r_event.reloaded

\* ========================================================== detect_stores
\* what the scan leaves alone
beyond_detect == <<now, degraded, router_only, reader_only, session_vars,
                   token_vars, reload_vars, snap_vars, ft_teams, ft_search,
                   ft_found>>

\* `sub in s`
Contains(s, sub) ==
    \E i \in 1..(Len(s) - Len(sub) + 1) : SubSeq(s, i, i + Len(sub) - 1) = sub

UPPERCASE ==
    {"A", "B", "C", "D", "E", "F", "G", "H", "I", "J", "K", "L", "M", "N", "O",
     "P", "Q", "R", "S", "T", "U", "V", "W", "X", "Y", "Z"}

\* a first record: a dict with its keys and the values of "key" and "type",
\* or something that is not a dict, or a store that cannot be read
FirstRecord(keys, key, type) ==
    [state |-> "dict", keys |-> keys, key |-> key, type |-> type]

NotADict == [state |-> "not a dict", keys |-> {}, key |-> <<>>, type |-> ""]

Unreadable == [state |-> "unreadable", keys |-> {}, key |-> <<>>, type |-> ""]

FirstRecords ==
    { FirstRecord({"number", "teamId", "stateId", "title"}, <<>>, ""),
      FirstRecord({"number", "teamId", "stateId", "title", "startsAt", "endsAt"},
                  <<>>, ""),
      FirstRecord({"key", "name"}, <<"E", "N", "G">>, ""),
      FirstRecord({"key", "name", "color", "isGroup"}, <<"E", "N", "G">>, ""),
      FirstRecord({"key", "name", "color", "isGroup"}, <<"e", "n", "g">>, ""),
      FirstRecord({"name", "displayName", "email"}, <<>>, ""),
      FirstRecord({"name", "type", "color", "teamId"}, <<>>, "started"),
      FirstRecord({"name", "type", "color", "teamId", "position", "indefinite"},
                  <<>>, "custom"),
      FirstRecord({"name", "type", "color", "position", "indefinite"}, <<>>,
                  "started"),
      FirstRecord({"issueId", "userId", "bodyData", "createdAt", "contentState"},
                  <<>>, ""),
      NotADict,
      Unreadable }

StoreNames ==
    { <<"a">>, <<"b">>, <<"_", "m">>,
      <<"c", "_", "p", "a", "r", "t", "i", "a", "l">> }

\* the object stores of a database: one, or two with different names
StoreLists ==
    LET stores == [name : StoreNames, first : FirstRecords]
    IN {<<x>> : x \in stores}
         \cup {p \in stores \X stores : p[1].name # p[2].name}

\* the _is_*_record predicates of store_detector.py
IsRecordOf(kind, r) ==
    LET has(required) == required \subseteq r.keys IN
    CASE kind = "issues" -> has({"number", "teamId", "stateId", "title"})
      [] kind = "teams" ->
            /\ has({"key", "name"})
            /\ r.key # <<>>
            /\ \A i \in 1..Len(r.key) : r.key[i] \in UPPERCASE
            /\ Len(r.key) <= 10
      [] kind = "users" -> has({"name", "displayName", "email"})
      [] kind = "workflow_states" ->
            /\ has({"name", "type", "color", "teamId"})
            /\ r.type \in {"started", "unstarted", "completed", "canceled",
                            "backlog"}
      [] kind = "comments" -> has({"issueId", "userId", "bodyData", "createdAt"})
      [] kind = "projects" ->
            has({"name", "teamIds", "slugId", "statusId", "memberIds"})
      [] kind = "issue_content" -> has({"issueId", "contentState"})
      [] kind = "labels" -> has({"name", "color", "isGroup"})
      [] kind = "initiatives" ->
            has({"name", "ownerId", "slugId", "frequencyResolution"})
      [] kind = "project_statuses" ->
            /\ has({"name", "color", "position", "type", "indefinite"})
            /\ "teamId" \notin r.keys
      [] kind = "cycles" -> has({"number", "teamId", "startsAt", "endsAt"})
      [] kind = "documents" ->
            /\ has({"title", "slugId", "projectId", "sortOrder"})
            /\ "number" \notin r.keys /\ "stateId" \notin r.keys
      [] kind = "document_content" -> has({"documentContentId", "contentData"})
      [] kind = "milestones" ->
            /\ has({"name", "projectId", "sortOrder"})
            /\ ("currentProgress" \in r.keys \/ "targetDate" \in r.keys)
      [] kind = "project_updates" ->
            /\ "body" \in r.keys
            /\ ("projectId" \in r.keys \/ "health" \in r.keys)
            /\ "issueId" \notin r.keys

\* the second half of each test of the elif chain: `result.x is None` for
\* the kinds that take one store, `store_name not in result.x` for the lists
Claimable(kind, name, stores) ==
    IF kind \in {"users", "workflow_states", "labels"}
    THEN \A i \in 1..Len(stores[kind]) : stores[kind][i] # name
    ELSE stores[kind] = <<>>

\* the branch of the if/elif chain that a first record takes
AssignedKind(r, name, stores) ==
    LET hits == {k \in DOMAIN DETECTION_ORDER :
                    /\ IsRecordOf(DETECTION_ORDER[k], r)
                    /\ Claimable(DETECTION_ORDER[k], name, stores)}
    IN IF hits = {} THEN "none"
       ELSE DETECTION_ORDER[CHOOSE k \in hits : \A j \in hits : k <= j]

\* `store_name.startswith("_") or "_partial" in store_name`
SkipStore(name) ==
    \/ StartsWith(name, <<"_">>)
    \/ Contains(name, <<"_", "p", "a", "r", "t", "i", "a", "l">>)

InitDetect ==
    /\ now = 1
    /\ degraded = FALSE
    /\ coherence_window_seconds = MaxWindow
    /\ RouterStart
    /\ ReaderStart
    /\ SessionStart
    /\ TokenCacheStart
    /\ ReloadStart
    /\ SnapshotStart
    /\ ds_pending \in StoreLists
    /\ ds_result = NothingDetected
    /\ ds_log = <<>>
    /\ ft_teams = <<>>
    /\ ft_search = <<>>
    /\ ft_found = [pending |-> TRUE]

\* one pass of `for store_name in db.object_store_names:`
ScanStore ==
    /\ ds_pending # <<>>
    /\ LET store == Head(ds_pending)
           kind == IF SkipStore(store.name) \/ store.first.state # "dict"
                   THEN "none"
                   ELSE AssignedKind(store.first, store.name, ds_result)
       IN /\ ds_result' = IF kind = "none" THEN ds_result
                          ELSE [ds_result EXCEPT ![kind] = Append(@, store.name)]
          /\ ds_log' = Append(ds_log, [name |-> store.name, first |-> store.first,
                                       kind |-> kind])
    /\ ds_pending' = Tail(ds_pending)
    /\ UNCHANGED beyond_detect

NextDetect == ScanStore

SpecDetect == InitDetect /\ [][NextDetect]_vars

\* the first kind of the priority order whose predicate a record matches
FirstMatchingKind(r) ==
    LET hits == {k \in DOMAIN DETECTION_ORDER : IsRecordOf(DETECTION_ORDER[k], r)}
    IN IF hits = {} THEN "none"
       ELSE DETECTION_ORDER[CHOOSE k \in hits : \A j \in hits : k <= j]

\* C33 as stated: a store that detect_stores assigns to a kind is assigned
\* to the first kind of the priority order whose predicate its first record
\* matches, also when that kind was claimed by a store before it.
C33_FirstMatchingPredicateClaims ==
    \A i \in 1..Len(ds_log) :
        ds_log[i].kind # "none" => ds_log[i].kind = FirstMatchingKind(ds_log[i].first)

\* ============================================================== find_team
\* what a lookup leaves alone
beyond_find == <<now, degraded, router_only, reader_only, session_vars,
                 token_vars, reload_vars, snap_vars, ds_pending, ds_result,
                 ds_log>>

\* the letters, upper case with lower case
ALPHABET ==
    << <<"A", "a">>, <<"B", "b">>, <<"C", "c">>, <<"D", "d">>, <<"E", "e">>,
       <<"F", "f">>, <<"G", "g">>, <<"H", "h">>, <<"I", "i">>, <<"J", "j">>,
       <<"K", "k">>, <<"L", "l">>, <<"M", "m">>, <<"N", "n">>, <<"O", "o">>,
       <<"P", "p">>, <<"Q", "q">>, <<"R", "r">>, <<"S", "s">>, <<"T", "t">>,
       <<"U", "u">>, <<"V", "v">>, <<"W", "w">>, <<"X", "x">>, <<"Y", "y">>,
       <<"Z", "z">> >>

\* str.lower()
Lower(s) ==
    [i \in 1..Len(s) |->
        IF \E k \in DOMAIN ALPHABET : ALPHABET[k][1] = s[i]
        THEN ALPHABET[CHOOSE k \in DOMAIN ALPHABET : ALPHABET[k][1] = s[i]][2]
        ELSE s[i]]

\* str.upper()
Upper(s) ==
    [i \in 1..Len(s) |->
        IF \E k \in DOMAIN ALPHABET : ALPHABET[k][2] = s[i]
        THEN ALPHABET[CHOOSE k \in DOMAIN ALPHABET : ALPHABET[k][2] = s[i]][1]
        ELSE s[i]]

\* the teams a snapshot may hold, in the order they were inserted
TeamLists ==
    LET teams == { [key |-> <<"E", "N", "G">>, name |-> <<"C", "o", "r", "e">>],
                   [key |-> <<"P", "L", "A", "T">>,
                    name |-> <<"E", "n", "g", "i", "n", "e">>],
                   [key |-> <<"O", "P", "S">>, name |-> <<"O", "p", "s">>],
                   [key |-> <<"D", "E", "S">>,
                    name |-> <<"D", "e", "s", "i", "g", "n", " ", "E", "n", "g">>] }
    IN {<<a>> : a \in teams}
         \cup {p \in teams \X teams : p[1] # p[2]}
         \cup {p \in teams \X teams \X teams :
                   p[1] # p[2] /\ p[1] # p[3] /\ p[2] # p[3]}

Searches ==
    {<<"e", "n", "g">>, <<"E", "N", "G">>, <<"O", "p", "s">>, <<"q", "a">>}

\* LinearLocalReader.find_team: the first team, in insertion order, whose
\* key is the upper-cased search or whose name contains it
FindTeam(teams, search) ==
    LET hits == {i \in 1..Len(teams) :
                    \/ teams[i].key = Upper(search)
                    \/ Contains(Lower(teams[i].name), Lower(search))}
    IN IF hits = {} THEN None
       ELSE teams[CHOOSE i \in hits : \A j \in hits : i <= j]

InitFind ==
    /\ now = 1
    /\ degraded = FALSE
    /\ coherence_window_seconds = MaxWindow
    /\ RouterStart
    /\ ReaderStart
    /\ SessionStart
    /\ TokenCacheStart
    /\ ReloadStart
    /\ SnapshotStart
    /\ ds_pending = <<>>
    /\ ds_result = NothingDetected
    /\ ds_log = <<>>
    /\ ft_teams \in TeamLists
    /\ ft_search \in Searches
    /\ ft_found = [pending |-> TRUE]

\* one call of find_team
FindTeamCall ==
    /\ ft_found.pending
    /\ ft_found' = [pending |-> FALSE, team |-> FindTeam(ft_teams, ft_search)]
    /\ UNCHANGED <<ft_teams, ft_search, beyond_find>>

SpecFind == InitFind /\ [][FindTeamCall]_vars

\* the score of a team for a search under the claim's contract
TeamScore(team, search) ==
    IF Lower(team.key) = Lower(search) THEN 100
    ELSE IF Contains(Lower(team.name), Lower(search)) THEN 10
    ELSE 0

\* C34 as stated: find_team returns the first inserted of the teams with the
\* highest score, where a key equal to the search (case-insensitively)
\* scores 100 and a name that contains it scores 10; it returns none if no
\* team scores.
C34_HighestScoringTeam ==
    ~ft_found.pending =>
        LET n == Len(ft_teams)
            scored == {i \in 1..n : TeamScore(ft_teams[i], ft_search) > 0}
            best == {i \in scored :
                        \A j \in scored : TeamScore(ft_teams[j], ft_search)
                                              <= TeamScore(ft_teams[i], ft_search)}
        IN IF scored = {} THEN ft_found.team = None
           ELSE ft_found.team = ft_teams[CHOOSE i \in best : \A j \in best : i <= j]

\* C35: a call_official that raises, whatever the tool and whichever of
\* official_tool_error and official_unavailable it raises, leaves the
\* coherence deadline where it was.
C35_FailedWriteLeavesDeadline ==
    [][(/\ last_official' # None
        /\ last_official' # last_official
        /\ ~last_official'.ok)
          => remote_reads_until' = remote_reads_until]_vars

C35_Witness ==
    /\ pc = "idle"
    /\ last_official = [tool |-> create_issue, ok |-> FALSE]
    /\ last_write_at # -1
    /\ now > last_write_at
    /\ coherence_window_seconds > 0
    /\ remote_reads_until = last_write_at + coherence_window_seconds


\* C36: a single call_read issues at most two upstream calls, and two only
\* when the remote-first attempt failed with a transport error and the local
\* handler, run next, raised an exception that is not a LocalFallbackRequested;
\* on every other path it issues at most one.
C36_AtMostTwoUpstreamCalls ==
    /\ UpstreamCount <= 2
    /\ UpstreamCount = 2 =>
          /\ RemoteFirstTransportFailure
          /\ Len(trace) = 3
          /\ trace[2].ev = "local"
          /\ trace[2].invoked
          /\ trace[2].handler = Crash
          /\ trace[3].ev = "upstream"

C36_Witness ==
    /\ pc \in {"returned", "raised"}
    /\ UpstreamCount = 2
    /\ trace[2].handler = Crash

\* the local-first path whose handler crashed: one upstream call
C36_LocalFirstCrash ==
    /\ pc \in {"returned", "raised"}
    /\ ~entry_recent_write
    /\ UpstreamCount = 1
    /\ trace[1].ev = "local"
    /\ trace[1].handler = Crash


\* a reload of thread t that is on its way out with an exception, the
\* handler done
ReloadRaised(t) == l_pc[t] = "unlock" /\ l_frame[t].exc # None

\* C37: a reload that raises (database missing, no Linear database found,
\* scope rejection, record error) leaves the installed snapshot as it was at
\* every step from taking the lock to releasing it; its handler sets the
\* health to degraded with the error text as reason and raises the failure
\* count by one; and the error goes to the caller: the reload never reaches
\* the return statement of _ensure_cache.
C37_FailedReloadKeepsSnapshot ==
    [][\A t \in Threads :
          /\ (\/ l_pc'[t] \in {"load", "scope", "raise"}
              \/ l_pc[t] = "raise"
              \/ ReloadRaised(t)) => cache' = cache
          /\ (l_pc[t] = "raise" /\ l_pc'[t] # "raise") =>
                /\ ReloadRaised(t)'
                /\ l_frame'[t].exc = l_frame[t].exc
                /\ degraded'
                /\ health'.reason = [kind |-> l_frame[t].exc.text]
                /\ health'.failure_count = health.failure_count + 1
          /\ (ReloadRaised(t) /\ l_pc'[t] # "unlock") =>
                /\ l_pc'[t] = "idle"
                /\ reload_lock' = 0
                /\ degraded' /\ health' = health]_vars

\* a second failure in a row, over a snapshot an earlier reload installed
C37_Witness ==
    \E t \in Threads :
        /\ ReloadRaised(t)
        /\ cache.stage = "indexed"
        /\ health.failure_count = 2
        /\ l_frame[t].exc.type = "FileNotFoundError"

\* a scope rejection that ended a healthy reader's reload
C37_ScopeRejection ==
    \E t \in Threads :
        /\ ReloadRaised(t)
        /\ l_frame[t].allow # None
        /\ cache.stage = "indexed"
        /\ health.failure_count = 1


\* is_degraded() as the health update of thread t's reload will leave it
ComputedDegraded(t) ==
    HealthVerdict(l_frame[t].detected, l_frame[t].cache,
                  l_frame[t].load_errors) # None

\* C38: while a reload runs, a caller that reads self._cache and
\* is_degraded() never finds the snapshot the reload installed together with
\* a degraded flag other than the one computed for that snapshot.
C38_HealthBelongsToSnapshot ==
    \A t, u \in Threads :
        (/\ l_pc[u] = "return"
         /\ l_pc[t] \in {"health", "unlock"}
         /\ l_frame[t].exc = None) =>
            /\ cache = l_frame[t].cache
            /\ degraded = ComputedDegraded(t)

\* a caller is handed the new snapshot, which lacks required stores, while
\* the flag still says healthy
C38_NewSnapshotOldFlag ==
    \E t, u \in Threads :
        /\ l_pc[u] = "return"
        /\ l_pc[t] = "health"
        /\ cache = l_frame[t].cache
        /\ ComputedDegraded(t)
        /\ ~degraded


\* get_comments_for_issue(issue_id) on snapshot c, before the sort by
\* createdAt: the positions of comments_by_issue[issue_id] whose id is in
\* cache.comments, one returned comment for each
ReturnedComments(c, issue_id) ==
    {j \in 1..Len(c.comments_by_issue) :
        /\ c.comments_by_issue[j].issueId = issue_id
        /\ c.comments_by_issue[j].id \in Ids(c.comments)}

\* C39: in every installed snapshot comments_by_issue[i] lists each comment
\* id at most once, each listed id is a comment of the snapshot whose issueId
\* is i, and get_comments_for_issue(i) returns each comment of i exactly
\* once; also with the same comment in more than one database and with
\* account scoping off.
C39_CommentsListedOnce ==
    d_pc = "installed" =>
        LET c == d_installed
            e == c.comments_by_issue
        IN /\ \A j, k \in 1..Len(e) : e[j] = e[k] => j = k
           /\ \A j \in 1..Len(e) :
                 \E m \in c.comments : m.id = e[j].id /\ m.to = e[j].issueId
           /\ \A m \in c.comments :
                 Cardinality({j \in ReturnedComments(c, m.to) :
                                 e[j].id = m.id}) = 1

\* two databases with the same comments, scoping off: every comment is
\* listed twice
C39_ListedTwice ==
    /\ d_pc = "installed"
    /\ ~ScopeEnabled(d_scope)
    /\ \E m \in d_installed.comments :
          Cardinality({j \in ReturnedComments(d_installed, m.to) :
                          d_installed.comments_by_issue[j].id = m.id}) = 2


\* the step ends an attempt of thread t with a connect or call failure
AttemptFails(t) ==
    /\ Len(s_log'[t]) = Len(s_log[t]) + 1
    /\ FailedAttempt(Last(s_log'[t]))

\* C40: every failed non-semantic attempt goes to _record_failure, which
\* raises failureCount by exactly one and sets lastError to the error's
\* text, so a call that failed both attempts leaves the count two above the
\* one it found; a call_tool or list_tools that returns leaves failureCount
\* 0 and lastError empty; an attempt that ends with a semantic
\* official_tool_error changes neither; and nothing else changes them.
C40_CountersFollowAttempts ==
    [][/\ \A t \in Threads :
             /\ AttemptFails(t) =>
                   (s_pc'[t] = "failed" /\ failure_count' = failure_count
                      /\ last_error' = last_error)
             /\ (s_pc[t] = "failed" /\ s_pc'[t] # "failed") =>
                   /\ failure_count' = failure_count + 1
                   /\ last_error' = JStr(ErrorText(s_exc[t]))
             /\ (s_pc[t] # "release" /\ s_pc'[t] = "release") =>
                   IF s_result'[t].kind = "return"
                   THEN failure_count' = 0 /\ last_error' = None
                   ELSE IF s_result'[t].code = "official_tool_error"
                   THEN failure_count' = failure_count /\ last_error' = last_error
                   ELSE /\ Len(s_log[t]) = 2
                        /\ FailedAttempt(s_log[t][1])
                        /\ FailedAttempt(s_log[t][2])
                        /\ failure_count' = s_entry[t].failures + 2
       /\ (failure_count' # failure_count \/ last_error' # last_error) =>
             \E t \in Threads :
                \/ s_pc[t] = "failed"
                \/ s_pc[t] = "call" /\ s_result'[t] # None
                     /\ s_result'[t].kind = "return"]_vars

\* a call that found one recorded failure and failed both its attempts
C40_Witness ==
    \E t \in Threads :
        /\ s_pc[t] = "release"
        /\ s_result[t].kind = "raise"
        /\ s_result[t].code = "official_unavailable"
        /\ s_entry[t].failures = 1
        /\ failure_count = 3
        /\ last_error = JStr("TimeoutError: timed out")

\* a list_tools that succeeded on its second attempt
C40_ResetBySuccess ==
    \E t \in Threads :
        /\ s_pc[t] = "release"
        /\ s_op[t].op = "list_tools"
        /\ Len(s_log[t]) = 2
        /\ s_result[t].kind = "return"
        /\ failure_count = 0
        /\ last_error = None

\* a semantic error on the second attempt: the first failure stays recorded
C40_SemanticAfterFailure ==
    \E t \in Threads :
        /\ s_pc[t] = "release"
        /\ Len(s_log[t]) = 2
        /\ s_result[t].kind = "raise"
        /\ s_result[t].code = "official_tool_error"
        /\ failure_count = s_entry[t].failures + 1
        /\ last_error = JStr("ConnectionError: refused")

====
